---- MODULE Spec2Model ----
(***************************************************************************)
(* Client-side conversation state of the chat front end:                   *)
(*   - useChatHistory   (src/src/hooks/useChatHistory.ts)                  *)
(*   - ChatSpecialized  (src/src/components/ChatSpecialized.tsx)           *)
(*   - App tab switch   (src/unnamed/part_004)                             *)
(*   - NotificationProvider (src/src/contexts/NotificationContext.tsx)     *)
(*                                                                         *)
(* Strings are modelled as sequences of tokens: a question is a sequence   *)
(* of characters, a message produced by a template literal is the          *)
(* concatenation of its literal parts and its substituted values, and      *)
(* String.includes is a search for a token.                                *)
(*                                                                         *)
(* One React event handler, with the re-render and the effects it causes,  *)
(* is one action.  An awaited fetch splits onSend into the part that runs  *)
(* at submit time (OnSend) and the part that runs when the request         *)
(* settles (Settle).                                                       *)
(***************************************************************************)
EXTENDS Integers, Sequences, FiniteSets, TLC

VARIABLES
    tab,            \* App: useState<TabKey>('rag')
    inst,           \* number of ChatSpecialized instances mounted so far
    crashed,        \* ErrorBoundary.state.hasError
    hasInitial,     \* useChatHistory option: initialMessage was passed
    messages,       \* useChatHistory: useState<ChatMessage[]>([])
    msg,            \* ChatSpecialized: useState("")  (the input box)
    loading,        \* ChatSpecialized: useState(false)
    storage,        \* localStorage, key -> JSON text
    inflight,       \* fetch requests issued by onSend and not yet settled
    now,            \* Date.now()
    subs,           \* history: one record per submission that issued a request, with
                    \* the requests that were in flight when it was submitted
    prevTurns,      \* history: messages of the instance that was unmounted, until the next mount
    calls,          \* history: addMessage calls made so far
    lastOp,         \* history: the handler that ran last, whether it changed the
                    \* session, and for a settled request its id and its response
    notifications,  \* NotificationProvider: useState<Notification[]>([])
    hasUnreadNotifications, \* NotificationProvider: useState(false)
    timers,         \* pending setTimeout callbacks of addNotification
    nextId,         \* number of notification ids generated so far
    published,      \* history: one record per addNotification call: what was
                    \* asked for, when, and what removed the entry since
    updated,        \* history: updateNotification calls made so far
    cleared,        \* history: clearAllNotifications ran, and neither
                    \* addNotification nor updateNotification ran since
    registry,       \* localStorage: the entries whose key starts with "processing_id_"
    pollMounted,    \* the component that calls useProcessingStatus is mounted
    pollInst,       \* number of instances of that component mounted so far
    run,            \* number of runs of the effect of useProcessingStatus so far
    ids,            \* useProcessingStatus: const ids of the current run of the effect
    interval,       \* useProcessingStatus: the setInterval timer is set
    statuses,       \* useProcessingStatus: useState<Record<string, ProcessingStatus>>({})
    polls,          \* status requests issued by fetchStatus and not yet settled
    pollSeq,        \* number of status requests issued so far
    ticks,          \* history: interval callbacks run so far
    regs,           \* history: writes to the processing_id_ entries so far
    pollOp,         \* history: the step of the poller that ran last, and for a
                    \* settled request the request and its response
    shown,          \* history: per job, the request whose record statuses holds and
                    \* the latest issued request of the mounted instance that settled
    ragMessages     \* useChatHistory of the chat with chatId 'rag': its messages

chatVars  == <<tab, inst, crashed, hasInitial, messages, msg, loading, storage,
               inflight, subs, prevTurns, calls>>
notifVars == <<notifications, hasUnreadNotifications, timers, nextId, published,
               updated, cleared>>
pollVars  == <<registry, pollMounted, pollInst, run, ids, interval, statuses,
               polls, pollSeq, ticks, regs, pollOp, shown>>
ragVars   == <<ragMessages>>
vars      == <<chatVars, now, lastOp, notifVars, pollVars, ragVars>>

----------------------------------------------------------------------------
(* Bounds of the model *)

MaxAppends == 102      \* addMessage calls explored by SpecStore
MaxMounts == 2         \* ChatSpecialized instances explored by SpecChat
MaxOpens == 2          \* hook instances explored by SpecStore
MaxSubmits == 2        \* submissions that issue a request, explored by SpecChat
MaxNotifs == 2         \* addNotification calls explored by SpecNotif
MaxQueue == 3          \* addNotification calls explored by SpecDismiss
MaxTicks == 3          \* advances of the clock explored by SpecNotif
MaxExpiryTicks == 2    \* advances of the clock explored by SpecDismiss
MaxUpdates == 1        \* updateNotification calls explored by SpecNotif
MaxPollMounts == 2     \* mounts of the component that polls, explored by SpecPoll
MaxRuns == 2           \* runs of the effect of useProcessingStatus explored by SpecPoll
MaxPollTicks == 2      \* interval callbacks explored by SpecPoll
MaxPolls == 4          \* status requests explored by SpecPoll
MaxRegs == 1           \* writes to the processing_id_ entries explored by SpecPoll
MaxQuotaAppends == 4   \* addMessage calls explored by SpecQuota
MaxIsoMounts == 4      \* tab switches explored by SpecIsolation
MaxIsoAppends == 3     \* addMessage calls explored by SpecIsolation

----------------------------------------------------------------------------
(* useChatHistory *)

MAX_MESSAGES == 100

CHAT_ID == "custom"

CHAT_HISTORY_KEY == "chat_history_custom"

INITIAL_BOT_MESSAGE == <<"Hola, soy un Asistente Inteligente.">>

initialMessage == [role |-> "bot", text |-> INITIAL_BOT_MESSAGE]

\* Mutant of SliceLast: arr.slice(0, n), the first n instead of the last n
SliceLast_First(arr, n) ==
    IF Len(arr) > n THEN SubSeq(arr, 1, n) ELSE arr

\* arr.slice(-n)
SliceLast(arr, n) ==
    IF Len(arr) > n THEN SubSeq(arr, Len(arr) - n + 1, Len(arr)) ELSE arr

\* Mutant of StringifyMessage: the timestamp is not written
StringifyMessage_NoTimestamp(m) ==
    << <<"role", m.role>>, <<"text", m.text>> >>

\* JSON.stringify of one ChatMessage: the members in insertion order, a
\* member whose value is undefined (timestamp of the initial message) is left out.
StringifyMessage(m) ==
    << <<"role", m.role>>, <<"text", m.text>> >>
      \o (IF "timestamp" \in DOMAIN m THEN << <<"timestamp", m.timestamp>> >> ELSE << >>)

\* JSON.stringify(messagesToStore)
JSONstringify(arr) ==
    [kind |-> "array", items |-> [i \in 1..Len(arr) |-> StringifyMessage(arr[i])]]

\* JSON.parse of one array element back into an object
ParseMessage(item) ==
    IF Len(item) = 3
      THEN [role |-> item[1][2], text |-> item[2][2], timestamp |-> item[3][2]]
      ELSE [role |-> item[1][2], text |-> item[2][2]]

\* The texts localStorage can hold under the key.  "absent": getItem returns
\* null; "array": JSON of a list of messages; "garbage": text that JSON.parse
\* rejects; "null": the JSON text null.
Absent == [kind |-> "absent", items |-> << >>]

Garbage == [kind |-> "garbage", items |-> << >>]

JSONnull == [kind |-> "null", items |-> << >>]

\* JSON.parse(stored): "throws", "notArray", or the parsed list
ParseOutcome(stored) ==
    CASE stored.kind = "array" -> "array"
      [] stored.kind = "garbage" -> "throws"
      [] OTHER -> "notArray"

JSONparse(stored) == [i \in 1..Len(stored.items) |-> ParseMessage(stored.items[i])]

\* if (stored)
Truthy(stored) == stored.kind # "absent"

\* The load effect (useEffect on [chatId]) followed by the re-render: the new
\* value of messages, or "crash" when the render that follows throws because
\* messages is not a list (messages.length of null).
LoadEffect(stored, seeded) ==
    LET seed == IF seeded THEN <<initialMessage>> ELSE << >> IN
    IF Truthy(stored)
      THEN CASE ParseOutcome(stored) = "array" -> [crash |-> FALSE, messages |-> JSONparse(stored)]
             [] ParseOutcome(stored) = "throws" -> [crash |-> FALSE, messages |-> seed]
             [] OTHER -> [crash |-> TRUE, messages |-> << >>]
      ELSE [crash |-> FALSE, messages |-> seed]

\* The save effect (useEffect on [messages, ...]): the new localStorage
SaveEffect(msgs, store) ==
    IF Len(msgs) > 0
      THEN [store EXCEPT ![CHAT_HISTORY_KEY] = JSONstringify(SliceLast(msgs, MAX_MESSAGES))]
      ELSE store

\* Mutant of AddMessage: setMessages(prev => [newMessage, ...prev])
AddMessage_Prepend(prev, message) ==
    <<[role |-> message.role, text |-> message.text, timestamp |-> now]>> \o prev

\* addMessage: setMessages(prev => [...prev, newMessage])
AddMessage(prev, message) ==
    Append(prev, [role |-> message.role, text |-> message.text, timestamp |-> now])

\* The component instance that owns the hook is on screen
Mounted == tab = "specialized" /\ ~crashed

\* What localStorage holds under the key, read back as a list of messages
Persisted == JSONparse(storage[CHAT_HISTORY_KEY])

----------------------------------------------------------------------------
(* App and ErrorBoundary: mounting and unmounting the chat *)

\* setTab('specialized'): ChatSpecialized mounts, its effects run
MountChat(maxInst) ==
    /\ ~crashed
    /\ tab = "rag"
    /\ inst < maxInst
    /\ LET r == LoadEffect(storage[CHAT_HISTORY_KEY], hasInitial) IN
         /\ tab' = "specialized"
         /\ inst' = inst + 1
         /\ crashed' = r.crash
         /\ messages' = r.messages
         /\ storage' = IF r.crash THEN storage ELSE SaveEffect(r.messages, storage)
         /\ lastOp' = [op |-> "mount", applied |-> ~r.crash]
    /\ msg' = << >>
    /\ loading' = FALSE
    /\ prevTurns' = << >>
    /\ UNCHANGED <<hasInitial, inflight, subs, calls, now, notifVars, pollVars, ragVars>>

\* setTab('rag'): ChatSpecialized unmounts, its state is discarded
UnmountChat ==
    /\ Mounted
    /\ tab' = "rag"
    /\ prevTurns' = messages
    /\ messages' = << >>
    /\ msg' = << >>
    /\ loading' = FALSE
    /\ lastOp' = [op |-> "unmount", applied |-> TRUE]
    /\ UNCHANGED <<inst, crashed, hasInitial, storage, inflight, subs, calls, now, notifVars, pollVars, ragVars>>

\* ErrorBoundary.handleReload: window.location.reload()
Reload ==
    /\ crashed
    /\ crashed' = FALSE
    /\ tab' = "rag"
    /\ inflight' = {}
    /\ subs' = [i \in DOMAIN subs |->
                  IF subs[i].state = "inflight" THEN [subs[i] EXCEPT !.state = "dropped"] ELSE subs[i]]
    /\ lastOp' = [op |-> "reload", applied |-> TRUE]
    /\ UNCHANGED <<inst, hasInitial, messages, msg, loading, storage,
                   prevTurns, calls, now, notifVars, pollVars, ragVars>>

----------------------------------------------------------------------------
(* useChatHistory called by a host component: SpecStore *)

\* The turn the host appends with its n-th call
Script(n) ==
    [role |-> IF n % 2 = 1 THEN "user" ELSE "bot", text |-> <<"turn", ToString(n % 3)>>]

\* addMessage(message), the re-render and the save effect
StoreAppend ==
    /\ Mounted
    /\ calls < MaxAppends
    /\ messages' = AddMessage(messages, Script(calls + 1))
    /\ storage' = SaveEffect(messages', storage)
    /\ calls' = calls + 1
    /\ now' = now + 1
    /\ lastOp' = [op |-> "addMessage", applied |-> TRUE]
    /\ UNCHANGED <<tab, inst, crashed, hasInitial, msg, loading, inflight, subs,
                   prevTurns, notifVars, pollVars, ragVars>>

\* Mutant of ClearHistoryResult: only setMessages, localStorage is not written
ClearHistoryResult_MemoryOnly(seeded, store) ==
    LET msgs == IF seeded THEN <<initialMessage>> ELSE << >>
    IN  [messages |-> msgs, storage |-> SaveEffect(msgs, store)]

\* Mutant of ClearHistoryResult: setMessages(prev => [...prev, initialMessage])
ClearHistoryResult_Append(seeded, store) ==
    LET msgs == messages \o (IF seeded THEN <<initialMessage>> ELSE << >>)
    IN  [messages |-> msgs, storage |-> SaveEffect(msgs, store)]

\* clearHistory, the re-render and the save effect
ClearHistoryResult(seeded, store) ==
    LET msgs == IF seeded THEN <<initialMessage>> ELSE << >>
        written == IF seeded
                     THEN [store EXCEPT ![CHAT_HISTORY_KEY] = JSONstringify(<<initialMessage>>)]
                     ELSE [store EXCEPT ![CHAT_HISTORY_KEY] = Absent]
    IN  [messages |-> msgs, storage |-> SaveEffect(msgs, written)]

ClearHistory ==
    /\ Mounted
    /\ LET r == ClearHistoryResult(hasInitial, storage) IN
         /\ messages' = r.messages
         /\ storage' = r.storage
    /\ lastOp' = [op |-> "clearHistory", applied |-> TRUE]
    /\ UNCHANGED <<tab, inst, crashed, hasInitial, msg, loading, inflight, subs,
                   prevTurns, calls, now, notifVars, pollVars, ragVars>>

\* What a host can pass to resetWithInitialMessage
NewInitialMessages == { [role |-> "bot", text |-> <<"Nuevo inicio">>] }

\* Mutant of ResetWithInitialMessage: the save effect does not run
ResetWithInitialMessage_Unsaved(newInitialMessage) ==
    /\ Mounted
    /\ messages # <<newInitialMessage>>
    /\ messages' = <<newInitialMessage>>
    /\ lastOp' = [op |-> "resetWithInitialMessage", applied |-> TRUE]
    /\ UNCHANGED <<tab, inst, crashed, hasInitial, msg, loading, inflight, subs, storage,
                   prevTurns, calls, now, notifVars, pollVars, ragVars>>

\* resetWithInitialMessage(newInitialMessage), the re-render and the save effect
ResetWithInitialMessage(newInitialMessage) ==
    /\ Mounted
    /\ messages # <<newInitialMessage>>
    /\ messages' = <<newInitialMessage>>
    /\ storage' = SaveEffect(messages', storage)
    /\ lastOp' = [op |-> "resetWithInitialMessage", applied |-> TRUE]
    /\ UNCHANGED <<tab, inst, crashed, hasInitial, msg, loading, inflight, subs,
                   prevTurns, calls, now, notifVars, pollVars, ragVars>>

----------------------------------------------------------------------------
(* useChatHistory when localStorage refuses a write: SpecQuota *)

\* Mutant of TryWrite: the call is not inside try/catch
TryWrite_NoCatch(store, value, ok) ==
    [storage |-> IF ok THEN [store EXCEPT ![CHAT_HISTORY_KEY] = value] ELSE store,
     thrown |-> ~ok]

\* try { localStorage.setItem(KEY, value) } catch { console.error(...) }, and
\* the same around removeItem (value Absent): the call either writes or
\* throws (storage full or unavailable), and what it throws is caught
TryWrite(store, value, ok) ==
    [storage |-> IF ok THEN [store EXCEPT ![CHAT_HISTORY_KEY] = value] ELSE store,
     thrown |-> FALSE]

\* The save effect with a write that may be refused
TrySave(msgs, store, ok) ==
    IF Len(msgs) > 0
      THEN TryWrite(store, JSONstringify(SliceLast(msgs, MAX_MESSAGES)), ok)
      ELSE [storage |-> store, thrown |-> FALSE]

\* addMessage(message), the re-render and the save effect, whose write
\* succeeds or is refused
QuotaAppend(ok) ==
    /\ Mounted
    /\ calls < MaxQuotaAppends
    /\ messages' = AddMessage(messages, Script(calls + 1))
    /\ LET w == TrySave(messages', storage, ok) IN
         /\ storage' = w.storage
         /\ crashed' = w.thrown
    /\ calls' = calls + 1
    /\ now' = now + 1
    /\ lastOp' = [op |-> "addMessage", applied |-> TRUE, wrote |-> ok, saved |-> ok]
    /\ UNCHANGED <<tab, inst, hasInitial, msg, loading, inflight, subs,
                   prevTurns, notifVars, pollVars, ragVars>>

\* clearHistory, the re-render and the save effect: the write of clearHistory
\* and the write of the save effect each succeed or are refused
QuotaClear(okClear, okSave) ==
    /\ Mounted
    /\ messages' = IF hasInitial THEN <<initialMessage>> ELSE << >>
    /\ LET w == TryWrite(storage,
                         IF hasInitial THEN JSONstringify(<<initialMessage>>) ELSE Absent,
                         okClear)
           e == TrySave(messages', w.storage, okSave)
       IN  /\ storage' = e.storage
           /\ crashed' = (w.thrown \/ e.thrown)
    /\ lastOp' = [op |-> "clearHistory", applied |-> TRUE, wrote |-> okClear, saved |-> okSave]
    /\ UNCHANGED <<tab, inst, hasInitial, msg, loading, inflight, subs,
                   prevTurns, calls, now, notifVars, pollVars, ragVars>>

----------------------------------------------------------------------------
(* ChatSpecialized: the input box and onSend *)

Whitespace == {" ", "\n"}

RECURSIVE TrimStart(_)
TrimStart(s) ==
    IF s = << >> THEN s
    ELSE IF Head(s) \in Whitespace THEN TrimStart(Tail(s)) ELSE s

RECURSIVE TrimEnd(_)
TrimEnd(s) ==
    IF s = << >> THEN s
    ELSE IF s[Len(s)] \in Whitespace THEN TrimEnd(SubSeq(s, 1, Len(s) - 1)) ELSE s

\* Mutant of Trim: the input is used as typed
Trim_None(s) == s

\* String.prototype.trim
Trim(s) == TrimEnd(TrimStart(s))

\* What the user can have typed into the input box
Inputs == { << >>, <<" ", "\n">>, <<" ", "a", " ", "b", "\n">> }

\* String.prototype.includes, on token sequences
Includes(s, token) == \E i \in 1..Len(s) : s[i] = token

\* The bodies a response can carry: a JSON object (with its detail and answer
\* members, << >> when the member is missing or empty), the JSON text null,
\* or text that is not JSON.
ObjectBody(detail, answer) == [kind |-> "object", detail |-> detail, answer |-> answer, raw |-> << >>]

NullBody == [kind |-> "null", detail |-> << >>, answer |-> << >>, raw |-> << >>]

TextBody(raw) == [kind |-> "text", detail |-> << >>, answer |-> << >>, raw |-> raw]

Bodies ==
    { ObjectBody(<< >>, <<"X is ...">>),
      ObjectBody(<< >>, << >>),
      ObjectBody(<<"campo requerido">>, << >>),
      ObjectBody(<<"Failed to fetch">>, << >>),
      NullBody,
      TextBody(<<"Internal Server Error">>) }

\* await res.text()
ResText(body) ==
    CASE body.kind = "object" ->
           <<"{">> \o (IF body.detail # << >> THEN <<"\"detail\":\"">> \o body.detail \o <<"\"">> ELSE << >>)
                   \o (IF body.answer # << >> THEN <<"\"answer\":\"">> \o body.answer \o <<"\"">> ELSE << >>)
                   \o <<"}">>
      [] body.kind = "null" -> <<"null">>
      [] OTHER -> body.raw

Statuses == {200, 400, 404, 500, 503, 418}

StatusTexts == { << >>, <<"Status Text">> }

\* The message of the TypeError a rejected fetch carries, per browser
NetworkErrors ==
    { <<"Failed to fetch">>,
      <<"NetworkError", " when attempting to fetch resource.">>,
      <<"Load failed">> }

\* How a request can settle: the fetch rejects, or a response arrives
Responses ==
    { [kind |-> "network", message |-> m, status |-> 0, statusText |-> << >>, body |-> NullBody] :
        m \in NetworkErrors }
    \cup
    { [kind |-> "http", message |-> << >>, status |-> st, statusText |-> stt, body |-> b] :
        st \in Statuses, stt \in StatusTexts, b \in Bodies }

\* res.ok
Ok(res) == res.status >= 200 /\ res.status <= 299

MSG_404 == <<"No se pudo encontrar el endpoint del Agente Especializado.">>

MSG_500 == <<"Error interno en el servidor del Agente Especializado.">>

MSG_503 == <<"El servicio del Agente Especializado no esta disponible temporalmente.">>

MSG_400_FORMAT == <<"Solicitud invalida. Verifica el formato de tu pregunta.">>

MSG_NO_CONNECTION == <<"**No se pudo conectar con el backend**">>

MSG_NETWORK == <<"Error de red. Verifica tu conexion a Internet y que el backend este accesible en http://localhost:8000">>

NO_ANSWER == <<"(Sin respuesta)">>

\* Mutant of HttpErrorMessage: the switch has no case for 404
HttpErrorMessage_No404(res) ==
    LET errorText == ResText(res.body)
        parses == res.body.kind = "object"
    IN  CASE res.status = 500 -> MSG_500
          [] res.status = 503 -> MSG_503
          [] res.status = 400 ->
               IF parses
                 THEN <<"Solicitud invalida: ">>
                        \o (IF res.body.detail # << >> THEN res.body.detail ELSE <<"Error de validacion">>)
                 ELSE MSG_400_FORMAT
          [] OTHER ->
               IF parses
                 THEN <<"Error ", ToString(res.status), ": ">>
                        \o (IF res.body.detail # << >> THEN res.body.detail ELSE errorText)
                 ELSE <<"Error ", ToString(res.status), ": ">>
                        \o (IF res.statusText # << >> THEN res.statusText ELSE <<"Error desconocido">>)

\* The switch on res.status of the !res.ok branch: the message of the Error thrown
HttpErrorMessage(res) ==
    LET errorText == ResText(res.body)
        parses == res.body.kind = "object"   \* JSON.parse(errorText).detail does not throw
    IN  CASE res.status = 404 -> MSG_404
          [] res.status = 500 -> MSG_500
          [] res.status = 503 -> MSG_503
          [] res.status = 400 ->
               IF parses
                 THEN <<"Solicitud invalida: ">>
                        \o (IF res.body.detail # << >> THEN res.body.detail ELSE <<"Error de validacion">>)
                 ELSE MSG_400_FORMAT
          [] OTHER ->
               IF parses
                 THEN <<"Error ", ToString(res.status), ": ">>
                        \o (IF res.body.detail # << >> THEN res.body.detail ELSE errorText)
                 ELSE <<"Error ", ToString(res.status), ": ">>
                        \o (IF res.statusText # << >> THEN res.statusText ELSE <<"Error desconocido">>)

\* The try block of onSend after the fetch settled: what it throws, or the
\* text of the bot message it adds
TryBlock(res) ==
    CASE res.kind = "network" -> [thrown |-> TRUE, text |-> res.message]
      [] ~Ok(res) -> [thrown |-> TRUE, text |-> HttpErrorMessage(res)]
      [] res.body.kind = "text" ->
           [thrown |-> TRUE, text |-> <<"Unexpected token in JSON">>]
      [] res.body.kind = "null" ->
           [thrown |-> TRUE, text |-> <<"Cannot read properties of null (reading 'answer')">>]
      [] OTHER ->
           [thrown |-> FALSE,
            text |-> IF res.body.answer # << >> THEN res.body.answer ELSE NO_ANSWER]

\* The catch block of onSend: userFriendlyMessage
CatchBlock(errorMessage) ==
    IF \/ Includes(errorMessage, "Failed to fetch")
       \/ Includes(errorMessage, "ERR_CONNECTION_REFUSED")
       \/ Includes(errorMessage, "ERR_NETWORK")
      THEN MSG_NO_CONNECTION
      ELSE IF Includes(errorMessage, "NetworkError") \/ Includes(errorMessage, "net::ERR")
             THEN MSG_NETWORK
             ELSE errorMessage

\* The text of the bot message onSend adds once the request settled
BotText(res) ==
    LET t == TryBlock(res) IN IF t.thrown THEN CatchBlock(t.text) ELSE t.text

\* onChange of the input box: setMsg(e.target.value)
OnChange(v) ==
    /\ Mounted
    /\ msg # v
    /\ msg' = v
    /\ lastOp' = [op |-> "onChange", applied |-> TRUE]
    /\ UNCHANGED <<tab, inst, crashed, hasInitial, messages, loading, storage, inflight,
                   subs, prevTurns, calls, now, notifVars, pollVars, ragVars>>

\* const q = msg.trim(); if (!q) return;
Rejected(q) == q = << >>

\* Mutant of OnSend: a submission replaces the request that is in flight
OnSend_Dropping ==
    /\ Mounted
    /\ LET q == Trim(msg) IN
         IF Rejected(q)
           THEN /\ lastOp' = [op |-> "onSend", applied |-> FALSE]
                /\ UNCHANGED <<chatVars, now, notifVars, pollVars, ragVars>>
           ELSE /\ Len(subs) < MaxSubmits
                /\ messages' = AddMessage(messages, [role |-> "user", text |-> q])
                /\ storage' = SaveEffect(messages', storage)
                /\ msg' = << >>
                /\ loading' = TRUE
                /\ inflight' =  {[id |-> Len(subs) + 1, inst |-> inst, question |-> q]}
                /\ subs' = Append(subs, [inst |-> inst, userTs |-> now, state |-> "inflight",
                                         botTs |-> 0, during |-> {r.id : r \in inflight}])
                /\ calls' = calls + 1
                /\ now' = now + 1
                /\ lastOp' = [op |-> "onSend", applied |-> TRUE]
                /\ UNCHANGED <<tab, inst, crashed, hasInitial, prevTurns, notifVars, pollVars, ragVars>>

\* onSend up to the await of fetch
OnSend ==
    /\ Mounted
    /\ LET q == Trim(msg) IN
         IF Rejected(q)
           THEN /\ lastOp' = [op |-> "onSend", applied |-> FALSE]
                /\ UNCHANGED <<chatVars, now, notifVars, pollVars, ragVars>>
           ELSE /\ Len(subs) < MaxSubmits
                /\ messages' = AddMessage(messages, [role |-> "user", text |-> q])
                /\ storage' = SaveEffect(messages', storage)
                /\ msg' = << >>
                /\ loading' = TRUE
                /\ inflight' = inflight \cup {[id |-> Len(subs) + 1, inst |-> inst, question |-> q]}
                /\ subs' = Append(subs, [inst |-> inst, userTs |-> now, state |-> "inflight",
                                         botTs |-> 0, during |-> {r.id : r \in inflight}])
                /\ calls' = calls + 1
                /\ now' = now + 1
                /\ lastOp' = [op |-> "onSend", applied |-> TRUE]
                /\ UNCHANGED <<tab, inst, crashed, hasInitial, prevTurns, notifVars, pollVars, ragVars>>

\* The instance that issued request r is still the one on screen
Alive(r) == Mounted /\ r.inst = inst

\* Mutant of Settle: the catch block also calls addNotification
Settle_Notifies(r, res) ==
    /\ r \in inflight
    /\ inflight' = inflight \ {r}
    /\ IF Alive(r)
         THEN /\ messages' = AddMessage(messages, [role |-> "bot", text |-> BotText(res)])
              /\ storage' = SaveEffect(messages', storage)
              /\ loading' = FALSE
              /\ subs' = [subs EXCEPT ![r.id] = [@ EXCEPT !.state = "answered", !.botTs = now]]
              /\ calls' = calls + 1
              /\ now' = now + 1
              /\ lastOp' = [op |-> "settle", applied |-> TRUE, id |-> r.id, res |-> res]
         ELSE /\ subs' = [subs EXCEPT ![r.id] = [@ EXCEPT !.state = "dropped"]]
              /\ lastOp' = [op |-> "settle", applied |-> FALSE, id |-> r.id, res |-> res]
              /\ UNCHANGED <<messages, storage, loading, calls, now>>
    /\ IF TryBlock(res).thrown
         THEN /\ notifications' =
                   <<[id |-> nextId + 1, type |-> "error", title |-> "title",
                      message |-> "message", timestamp |-> now, autoClose |-> FALSE,
                      duration |-> 5000]>> \o notifications
              /\ hasUnreadNotifications' = TRUE
              /\ nextId' = nextId + 1
         ELSE UNCHANGED <<notifications, hasUnreadNotifications, nextId>>
    /\ UNCHANGED <<tab, inst, crashed, hasInitial, msg, prevTurns, timers, published, updated,
                   cleared, pollVars, ragVars>>

\* onSend from the await of fetch on: the try, catch and finally blocks.  The
\* state setters of an instance that was unmounted do nothing.
Settle(r, res) ==
    /\ r \in inflight
    /\ inflight' = inflight \ {r}
    /\ IF Alive(r)
         THEN /\ messages' = AddMessage(messages, [role |-> "bot", text |-> BotText(res)])
              /\ storage' = SaveEffect(messages', storage)
              /\ loading' = FALSE
              /\ subs' = [subs EXCEPT ![r.id] = [@ EXCEPT !.state = "answered", !.botTs = now]]
              /\ calls' = calls + 1
              /\ now' = now + 1
              /\ lastOp' = [op |-> "settle", applied |-> TRUE, id |-> r.id, res |-> res]
         ELSE /\ subs' = [subs EXCEPT ![r.id] = [@ EXCEPT !.state = "dropped"]]
              /\ lastOp' = [op |-> "settle", applied |-> FALSE, id |-> r.id, res |-> res]
              /\ UNCHANGED <<messages, storage, loading, calls, now>>
    /\ UNCHANGED <<tab, inst, crashed, hasInitial, msg, prevTurns, notifVars, pollVars, ragVars>>

----------------------------------------------------------------------------
(* useProcessingStatus: the status poller *)

\* The localStorage keys that start with "processing_id_", in the order of
\* Object.keys
ProcessingKeys == <<"processing_id_1", "processing_id_2">>

\* The key is not in localStorage
NoKey == "(no key)"

\* What a processing_id_ entry can hold: the id of a job, or the empty text
JobIds == {"A", "B"}

RegistryValues == JobIds \cup {""}

\* A field that is not there: undefined
Undefined == "undefined"

\* Object.keys(localStorage).filter(k => k.startsWith("processing_id_"))
Keys(reg) == SelectSeq([i \in 1..Len(ProcessingKeys) |-> i], LAMBDA i : reg[i] # NoKey)

\* No processing_id_ entry at all
NoRegistry == [i \in 1..Len(ProcessingKeys) |-> NoKey]

\* Boolean(value) of a stored text
NonEmpty(value) == value # ""

\* keys.map(k => localStorage.getItem(k)!).filter(Boolean)
ReadIds(reg) == SelectSeq([j \in 1..Len(Keys(reg)) |-> reg[Keys(reg)[j]]], NonEmpty)

\* { ...prev, [id]: value }
Put(prev, id, value) ==
    [k \in DOMAIN prev \cup {id} |-> IF k = id THEN value ELSE prev[k]]

\* prev[id] || {}
EmptyStatus ==
    [id |-> Undefined, success |-> Undefined, message |-> Undefined, error |-> Undefined,
     data |-> Undefined, warnings |-> Undefined, timestamp |-> Undefined, loading |-> Undefined]

\* fetchStatus, first setStatuses: { ...(prev[id] || {}), loading: true }
MarkLoading(prev, id) ==
    Put(prev, id, [(IF id \in DOMAIN prev THEN prev[id] ELSE EmptyStatus) EXCEPT !.loading = "true"])

\* ids.forEach(id => fetchStatus(id)), the part of each call before its await:
\* the statuses after the calls for the first n ids
RECURSIVE MarkAllLoading(_, _, _)
MarkAllLoading(prev, list, n) ==
    IF n = 0 THEN prev ELSE MarkLoading(MarkAllLoading(prev, list, n - 1), list[n])

\* ids.forEach(id => fetchStatus(id)): the requests the calls issue
Issue(list, first, effectRun, instance) ==
    { [rid |-> first + i, id |-> list[i], run |-> effectRun, inst |-> instance] :
        i \in 1..Len(list) }

\* The JSON bodies a status response can carry.  kind "object": a JSON object
\* with these members; "null": the JSON text null; "text": not JSON.
StatusObject(success, message, error) ==
    [kind |-> "object", success |-> success, message |-> message, error |-> error,
     data |-> Undefined, warnings |-> Undefined, timestamp |-> "2025-01-01T00:00:00"]

\* The body of an error response of the backend: { "detail": ... }
DetailBody ==
    [kind |-> "object", success |-> Undefined, message |-> Undefined, error |-> Undefined,
     data |-> Undefined, warnings |-> Undefined, timestamp |-> Undefined, detail |-> "Not Found"]

\* How a status request can settle: the fetch rejects, or a response arrives
StatusResponses ==
    { [kind |-> "network", message |-> "Failed to fetch"] }
    \cup
    { [kind |-> "http", status |-> 200, body |-> b] :
        b \in { StatusObject("true", "Documentos cargados", Undefined),
                StatusObject("false", "Fallo la carga", "URL invalida"),
                [kind |-> "null"],
                [kind |-> "text"] } }
    \cup
    { [kind |-> "http", status |-> st, body |-> b] :
        st \in {404, 500}, b \in {DetailBody, [kind |-> "text"]} }

\* fetchStatus, catch block: the record written for a thrown err
FailedStatus(id, errMessage) ==
    [id |-> id, success |-> "false", message |-> "Error de red al consultar estado",
     error |-> errMessage, data |-> Undefined, warnings |-> Undefined,
     timestamp |-> Undefined, loading |-> "false"]

\* fetchStatus after the await of fetch: the record written for job id
StatusRecord(id, res) ==
    CASE res.kind = "network" -> FailedStatus(id, res.message)
      [] res.body.kind = "text" -> FailedStatus(id, "Unexpected token in JSON")
      [] res.body.kind = "null" ->
           FailedStatus(id, "Cannot read properties of null (reading 'success')")
      [] OTHER ->
           [id |-> id, success |-> res.body.success, message |-> res.body.message,
            error |-> res.body.error, data |-> res.body.data, warnings |-> res.body.warnings,
            timestamp |-> res.body.timestamp, loading |-> "false"]

\* The poller before the component that uses it is mounted
InitPoller ==
    /\ pollMounted = FALSE
    /\ pollInst = 0
    /\ run = 0
    /\ ids = << >>
    /\ interval = FALSE
    /\ statuses = << >>
    /\ polls = {}
    /\ pollSeq = 0
    /\ ticks = 0
    /\ regs = 0
    /\ pollOp = [op |-> "init"]
    /\ shown = << >>

\* The body of the effect: read the ids, return when there are none, else call
\* fetchStatus for each and set the interval
RunEffect ==
    /\ run' = run + 1
    /\ ids' = ReadIds(registry)
    /\ IF Len(ids') = 0
         THEN /\ interval' = FALSE
              /\ UNCHANGED <<polls, pollSeq>>
         ELSE /\ interval' = TRUE
              /\ polls' = polls \cup Issue(ids', pollSeq, run', pollInst')
              /\ pollSeq' = pollSeq + Len(ids')

\* The component that calls useProcessingStatus mounts: first render, then the effect
StartPoller ==
    /\ ~pollMounted
    /\ pollInst < MaxPollMounts
    /\ pollSeq + Len(ReadIds(registry)) <= MaxPolls
    /\ pollMounted' = TRUE
    /\ pollInst' = pollInst + 1
    /\ RunEffect
    /\ statuses' = MarkAllLoading(<< >>, ids', Len(ids'))
    /\ pollOp' = [op |-> "start"]
    /\ shown' = << >>
    /\ UNCHANGED <<registry, ticks, regs, chatVars, now, lastOp, notifVars, ragVars>>

\* baseUrl or intervalMs changes: the cleanup (clearInterval) of the run
\* before, then the effect again
Restart ==
    /\ pollMounted
    /\ run < MaxRuns
    /\ pollSeq + Len(ReadIds(registry)) <= MaxPolls
    /\ UNCHANGED <<pollMounted, pollInst>>
    /\ RunEffect
    /\ statuses' = MarkAllLoading(statuses, ids', Len(ids'))
    /\ pollOp' = [op |-> "restart"]
    /\ UNCHANGED shown
    /\ UNCHANGED <<registry, ticks, regs, chatVars, now, lastOp, notifVars, ragVars>>

\* The component unmounts: the cleanup (clearInterval); its state is discarded
StopPoller ==
    /\ pollMounted
    /\ pollMounted' = FALSE
    /\ interval' = FALSE
    /\ ids' = << >>
    /\ statuses' = << >>
    /\ pollOp' = [op |-> "stop"]
    /\ shown' = << >>
    /\ UNCHANGED <<registry, pollInst, run, polls, pollSeq, ticks, regs, chatVars, now, lastOp,
                   notifVars, ragVars>>

\* Mutant of IntervalTick: the callback reads the ids from localStorage again
IntervalTick_Reread ==
    /\ interval
    /\ ticks < MaxPollTicks
    /\ pollSeq + Len(ReadIds(registry)) <= MaxPolls
    /\ ticks' = ticks + 1
    /\ statuses' = MarkAllLoading(statuses, ReadIds(registry), Len(ReadIds(registry)))
    /\ polls' = polls \cup Issue(ReadIds(registry), pollSeq, run, pollInst)
    /\ pollSeq' = pollSeq + Len(ReadIds(registry))
    /\ pollOp' = [op |-> "tick"]
    /\ UNCHANGED shown
    /\ UNCHANGED <<registry, pollMounted, pollInst, run, ids, interval, regs, chatVars, now,
                   lastOp, notifVars, ragVars>>

\* The setInterval callback: ids.forEach(id => fetchStatus(id)) on the ids
\* of the run that set the interval
IntervalTick ==
    /\ interval
    /\ ticks < MaxPollTicks
    /\ pollSeq + Len(ids) <= MaxPolls
    /\ ticks' = ticks + 1
    /\ statuses' = MarkAllLoading(statuses, ids, Len(ids))
    /\ polls' = polls \cup Issue(ids, pollSeq, run, pollInst)
    /\ pollSeq' = pollSeq + Len(ids)
    /\ pollOp' = [op |-> "tick"]
    /\ UNCHANGED shown
    /\ UNCHANGED <<registry, pollMounted, pollInst, run, ids, interval, regs, chatVars, now,
                   lastOp, notifVars, ragVars>>

\* The instance whose setStatuses request r calls is still mounted
PollAlive(r) == pollMounted /\ r.inst = pollInst

\* fetchStatus from the await of fetch on: request r settles with res
SettleStatus(r, res) ==
    /\ r \in polls
    /\ polls' = polls \ {r}
    /\ statuses' = IF PollAlive(r) THEN Put(statuses, r.id, StatusRecord(r.id, res))
                   ELSE statuses
    /\ pollOp' = [op |-> "settle", req |-> r, res |-> res]
    /\ shown' = IF PollAlive(r)
                  THEN Put(shown, r.id,
                           [rid |-> r.rid,
                            latest |-> IF r.id \in DOMAIN shown /\ shown[r.id].latest > r.rid
                                         THEN shown[r.id].latest ELSE r.rid])
                  ELSE shown
    /\ UNCHANGED <<registry, pollMounted, pollInst, run, ids, interval, pollSeq, ticks, regs,
                   chatVars, now, lastOp, notifVars, ragVars>>

\* The registration side channel: localStorage.setItem("processing_id_...", value)
SetItem(k, value) ==
    /\ regs < MaxRegs
    /\ registry[k] # value
    /\ regs' = regs + 1
    /\ registry' = [registry EXCEPT ![k] = value]
    /\ pollOp' = [op |-> "setItem"]
    /\ UNCHANGED shown
    /\ UNCHANGED <<pollMounted, pollInst, run, ids, interval, statuses, polls, pollSeq, ticks,
                   chatVars, now, lastOp, notifVars, ragVars>>

\* localStorage.removeItem("processing_id_...")
RemoveItem(k) ==
    /\ regs < MaxRegs
    /\ registry[k] # NoKey
    /\ regs' = regs + 1
    /\ registry' = [registry EXCEPT ![k] = NoKey]
    /\ pollOp' = [op |-> "removeItem"]
    /\ UNCHANGED shown
    /\ UNCHANGED <<pollMounted, pollInst, run, ids, interval, statuses, polls, pollSeq, ticks,
                   chatVars, now, lastOp, notifVars, ragVars>>

----------------------------------------------------------------------------
(* Initial states and specifications of the chat *)

\* What localStorage can hold under the key when the page is opened
InitStored == {Absent, Garbage, JSONnull, JSONstringify(<<initialMessage>>)}

InitNotif ==
    /\ notifications = << >>
    /\ hasUnreadNotifications = FALSE
    /\ timers = {}
    /\ nextId = 0
    /\ published = << >>
    /\ updated = 0
    /\ cleared = FALSE

InitSession ==
    /\ tab = "rag"
    /\ inst = 0
    /\ crashed = FALSE
    /\ messages = << >>
    /\ msg = << >>
    /\ loading = FALSE
    /\ storage \in [{CHAT_HISTORY_KEY} -> InitStored]
    /\ inflight = {}
    /\ now = 1
    /\ subs = << >>
    /\ prevTurns = << >>
    /\ calls = 0
    /\ lastOp = [op |-> "init", applied |-> TRUE]
    /\ ragMessages = << >>

\* ChatSpecialized always passes an initialMessage
InitChat == InitSession /\ hasInitial = TRUE /\ InitNotif /\ InitPoller /\ registry = NoRegistry

NextChat ==
    \/ MountChat(MaxMounts)
    \/ UnmountChat
    \/ Reload
    \/ \E v \in Inputs : OnChange(v)
    \/ OnSend
    \/ \E r \in inflight, res \in Responses : Settle(r, res)
    \/ ClearHistory

SpecChat == InitChat /\ [][NextChat]_vars

\* The hook used by a host component that may or may not pass an initialMessage
InitStore == InitSession /\ hasInitial \in BOOLEAN /\ InitNotif /\ InitPoller /\ registry = NoRegistry

NextStore ==
    \/ MountChat(MaxOpens)
    \/ UnmountChat
    \/ Reload
    \/ StoreAppend
    \/ ClearHistory
    \/ \E m \in NewInitialMessages : ResetWithInitialMessage(m)

SpecStore == InitStore /\ [][NextStore]_vars

\* The hook when localStorage may refuse any write of append and reset
NextQuota ==
    \/ MountChat(MaxOpens)
    \/ UnmountChat
    \/ Reload
    \/ \E ok \in BOOLEAN : QuotaAppend(ok)
    \/ \E okClear \in BOOLEAN, okSave \in BOOLEAN : QuotaClear(okClear, okSave)

SpecQuota == InitStore /\ [][NextQuota]_vars

----------------------------------------------------------------------------
(* useChatHistory called with two chat ids, one chat per tab: SpecIsolation *)

\* The chatId of ChatSpecialized, and the chatId of the chat on the other tab
ChatIds == {"custom", "rag"}

\* Mutant of HistoryKey: the key does not depend on chatId
HistoryKey_Shared(chatId) == "chat_history"

\* const CHAT_HISTORY_KEY = `chat_history_${chatId}`
HistoryKey(chatId) == "chat_history_" \o chatId

\* The tab on which the chat with this id is rendered
TabOf(chatId) == IF chatId = "custom" THEN "specialized" ELSE "rag"

\* The chat with this id is on screen
Showing(chatId) == ~crashed /\ tab = TabOf(chatId)

\* messages of the hook instance of this chat
SessionMessages(chatId) == IF chatId = "custom" THEN messages ELSE ragMessages

\* The save effect of the hook instance of this chat
SaveFor(chatId, msgs, store) ==
    IF Len(msgs) > 0
      THEN [store EXCEPT ![HistoryKey(chatId)] = JSONstringify(SliceLast(msgs, MAX_MESSAGES))]
      ELSE store

\* setMessages of the hook instance of this chat; the other instance has its own state
SetSession(chatId, msgs) ==
    IF chatId = "custom"
      THEN messages' = msgs /\ UNCHANGED ragMessages
      ELSE ragMessages' = msgs /\ UNCHANGED messages

\* setTab(t): the chat of the other tab unmounts and its state is discarded,
\* the chat with this id mounts, and its load and save effects run
SwitchTab(chatId) ==
    /\ ~crashed
    /\ tab # TabOf(chatId)
    /\ inst < MaxIsoMounts
    /\ LET r == LoadEffect(storage[HistoryKey(chatId)], hasInitial) IN
         /\ tab' = TabOf(chatId)
         /\ inst' = inst + 1
         /\ crashed' = r.crash
         /\ IF chatId = "custom"
              THEN messages' = r.messages /\ ragMessages' = << >>
              ELSE ragMessages' = r.messages /\ messages' = << >>
         /\ storage' = IF r.crash THEN storage ELSE SaveFor(chatId, r.messages, storage)
    /\ msg' = << >>
    /\ loading' = FALSE
    /\ lastOp' = [op |-> "setTab", applied |-> TRUE, chatId |-> chatId]
    /\ UNCHANGED <<hasInitial, inflight, subs, prevTurns, calls, now, notifVars, pollVars>>

\* addMessage of the chat with this id, the re-render and the save effect
SessionAppend(chatId) ==
    /\ Showing(chatId)
    /\ calls < MaxIsoAppends
    /\ LET msgs == AddMessage(SessionMessages(chatId), Script(calls + 1)) IN
         /\ SetSession(chatId, msgs)
         /\ storage' = SaveFor(chatId, msgs, storage)
    /\ calls' = calls + 1
    /\ now' = now + 1
    /\ lastOp' = [op |-> "addMessage", applied |-> TRUE, chatId |-> chatId]
    /\ UNCHANGED <<tab, inst, crashed, hasInitial, msg, loading, inflight, subs,
                   prevTurns, notifVars, pollVars>>

\* clearHistory of the chat with this id, the re-render and the save effect
SessionClear(chatId) ==
    /\ Showing(chatId)
    /\ LET msgs == IF hasInitial THEN <<initialMessage>> ELSE << >>
           written == [storage EXCEPT ![HistoryKey(chatId)] =
                         IF hasInitial THEN JSONstringify(<<initialMessage>>) ELSE Absent]
       IN  /\ SetSession(chatId, msgs)
           /\ storage' = SaveFor(chatId, msgs, written)
    /\ lastOp' = [op |-> "clearHistory", applied |-> TRUE, chatId |-> chatId]
    /\ UNCHANGED <<tab, inst, crashed, hasInitial, msg, loading, inflight, subs,
                   prevTurns, calls, now, notifVars, pollVars>>

\* The page after its first render: the chat of the 'rag' tab is mounted and
\* its load and save effects have run
InitIsolation ==
    /\ tab = "rag"
    /\ inst = 0
    /\ crashed = FALSE
    /\ hasInitial \in BOOLEAN
    /\ storage \in [{HistoryKey(c) : c \in ChatIds} ->
                      {Absent, JSONstringify(<<initialMessage>>)}]
    /\ ragMessages = LoadEffect(storage[HistoryKey("rag")], hasInitial).messages
    /\ storage = SaveFor("rag", ragMessages, storage)
    /\ messages = << >>
    /\ msg = << >>
    /\ loading = FALSE
    /\ inflight = {}
    /\ now = 1
    /\ subs = << >>
    /\ prevTurns = << >>
    /\ calls = 0
    /\ lastOp = [op |-> "init", applied |-> TRUE, chatId |-> "rag"]
    /\ InitNotif
    /\ InitPoller
    /\ registry = NoRegistry

NextIsolation ==
    \/ \E c \in ChatIds : SwitchTab(c)
    \/ \E c \in ChatIds : SessionAppend(c)
    \/ \E c \in ChatIds : SessionClear(c)

SpecIsolation == InitIsolation /\ [][NextIsolation]_vars

----------------------------------------------------------------------------
(* NotificationProvider *)

NotificationTypes == {"success", "error", "info", "warning", "processing"}

DEFAULT_DURATION == 5000

\* The clock advances in steps of half the default duration
Step == DEFAULT_DURATION \div 2

\* What a caller can pass to addNotification: autoClose and duration are optional
NotificationData ==
    { [type |-> t, title |-> "title", message |-> "message"] : t \in NotificationTypes }
    \cup
    { [type |-> t, title |-> "title", message |-> "message", autoClose |-> a] :
        t \in {"success", "error"}, a \in BOOLEAN }
    \cup
    { [type |-> "success", title |-> "title", message |-> "message", duration |-> Step] }

\* Mutant of ResolveAutoClose: || in place of ??
ResolveAutoClose_Or(data) ==
    ("autoClose" \in DOMAIN data /\ data.autoClose) \/ data.type = "success"

\* notificationData.autoClose ?? (notificationData.type === 'success')
ResolveAutoClose(data) ==
    IF "autoClose" \in DOMAIN data THEN data.autoClose ELSE data.type = "success"

\* notificationData.duration ?? 5000
ResolveDuration(data) ==
    IF "duration" \in DOMAIN data THEN data.duration ELSE DEFAULT_DURATION

\* Mutant of TimerDue: setTimeout without the delay
TimerDue_Now(notification) == now

\* The instant the callback of setTimeout(..., notification.duration) is due
TimerDue(notification) == now + notification.duration

\* Mutant of FilterOut: prev.filter(n => n.id === id)
RECURSIVE FilterOut_Keep(_, _)
FilterOut_Keep(prev, id) ==
    IF prev = << >> THEN << >>
    ELSE IF Head(prev).id = id
           THEN <<Head(prev)>> \o FilterOut_Keep(Tail(prev), id)
           ELSE FilterOut_Keep(Tail(prev), id)

\* prev.filter(n => n.id !== id)
RECURSIVE FilterOut(_, _)
FilterOut(prev, id) ==
    IF prev = << >> THEN << >>
    ELSE IF Head(prev).id # id
           THEN <<Head(prev)>> \o FilterOut(Tail(prev), id)
           ELSE FilterOut(Tail(prev), id)

\* The ids of the entries of a list
Ids(list) == {list[i].id : i \in 1..Len(list)}

\* history: the entries with an id in `gone` are marked as removed by `how`
MarkRemoved(gone, how) ==
    [i \in DOMAIN published |->
       IF i \in gone /\ published[i].removedBy = "none"
         THEN [published[i] EXCEPT !.removedBy = how]
         ELSE published[i]]

\* addNotification(notificationData); at most maxIds calls are explored
AddNotification(data, maxIds) ==
    /\ nextId < maxIds
    /\ LET id == nextId + 1
           notification ==
             [id |-> id, type |-> data.type, title |-> data.title, message |-> data.message,
              timestamp |-> now,
              autoClose |-> ResolveAutoClose(data),
              duration |-> ResolveDuration(data)]
       IN  /\ notifications' = <<notification>> \o notifications
           /\ hasUnreadNotifications' = TRUE
           /\ timers' = IF notification.autoClose
                          THEN timers \cup {[id |-> id, due |-> TimerDue(notification)]}
                          ELSE timers
           /\ nextId' = id
           /\ published' = Append(published,
                  [type |-> data.type,
                   explicit |-> IF "autoClose" \in DOMAIN data
                                  THEN (IF data.autoClose THEN "true" ELSE "false")
                                  ELSE "none",
                   at |-> now,
                   ttl |-> ResolveDuration(data),
                   removedBy |-> "none",
                   late |-> FALSE])
           /\ cleared' = FALSE
    /\ UNCHANGED <<ragVars, pollVars, chatVars, now, lastOp, updated>>

\* removeNotification(id), called by the notification panel
RemoveNotification(id) ==
    /\ notifications' = FilterOut(notifications, id)
    /\ published' = IF id \in Ids(notifications)
                       THEN MarkRemoved({id}, "dismiss")
                       ELSE [published EXCEPT ![id].late = TRUE]
    /\ UNCHANGED <<ragVars, pollVars, chatVars, now, lastOp, hasUnreadNotifications, timers, nextId, updated,
                   cleared>>

\* The callback of the setTimeout of addNotification: removeNotification(id)
TimerFires(t) ==
    /\ t \in timers
    /\ t.due <= now
    /\ timers' = timers \ {t}
    /\ notifications' = FilterOut(notifications, t.id)
    /\ published' = MarkRemoved({t.id} \cap Ids(notifications), "timer")
    /\ UNCHANGED <<ragVars, pollVars, chatVars, now, lastOp, hasUnreadNotifications, nextId, updated, cleared>>

\* Mutant of ClearAllNotifications: the unread flag is not reset
ClearAllNotifications_KeepUnread ==
    /\ notifications' = << >>
    /\ published' = MarkRemoved(Ids(notifications), "clear")
    /\ cleared' = TRUE
    /\ UNCHANGED <<ragVars, pollVars, chatVars, now, lastOp, hasUnreadNotifications, timers, nextId, updated>>

\* clearAllNotifications()
ClearAllNotifications ==
    /\ notifications' = << >>
    /\ hasUnreadNotifications' = FALSE
    /\ published' = MarkRemoved(Ids(notifications), "clear")
    /\ cleared' = TRUE
    /\ UNCHANGED <<ragVars, pollVars, chatVars, now, lastOp, timers, nextId, updated>>

\* What a caller can pass to updateNotification as the partial update
NotificationUpdates ==
    { [type |-> t] : t \in {"success", "error", "info"} } \cup { [message |-> "updated"] }

\* { ...notification, ...updates, timestamp: Date.now() }
Merge(notification, updates) ==
    [f \in DOMAIN notification |->
       IF f = "timestamp" THEN now
       ELSE IF f \in DOMAIN updates THEN updates[f] ELSE notification[f]]

\* Mutant of UpdateNotification: the expiry timer of the entry is cancelled
UpdateNotification_CancelsTimer(id, updates) ==
    /\ updated < MaxUpdates
    /\ updated' = updated + 1
    /\ cleared' = FALSE
    /\ notifications' =
         [i \in 1..Len(notifications) |->
            IF notifications[i].id = id THEN Merge(notifications[i], updates)
            ELSE notifications[i]]
    /\ hasUnreadNotifications' =
         IF "type" \in DOMAIN updates /\ updates.type \in {"success", "error"}
           THEN TRUE ELSE hasUnreadNotifications
    /\ timers' = {t \in timers : t.id # id}
    /\ UNCHANGED <<ragVars, pollVars, chatVars, now, lastOp, nextId, published>>

\* updateNotification(id, updates)
UpdateNotification(id, updates) ==
    /\ updated < MaxUpdates
    /\ updated' = updated + 1
    /\ cleared' = FALSE
    /\ notifications' =
         [i \in 1..Len(notifications) |->
            IF notifications[i].id = id THEN Merge(notifications[i], updates)
            ELSE notifications[i]]
    /\ hasUnreadNotifications' =
         IF "type" \in DOMAIN updates /\ updates.type \in {"success", "error"}
           THEN TRUE ELSE hasUnreadNotifications
    /\ UNCHANGED <<ragVars, pollVars, chatVars, now, lastOp, timers, nextId, published>>

\* markAllAsRead()
MarkAllAsRead ==
    /\ hasUnreadNotifications' = FALSE
    /\ UNCHANGED <<ragVars, pollVars, chatVars, now, lastOp, notifications, timers, nextId, published, updated,
                   cleared>>

\* Time passes.  A callback that is due runs before the clock moves on.
\* At most maxTicks advances of the clock are explored.
Tick(maxTicks) ==
    /\ now + Step <= 1 + maxTicks * Step
    /\ \A t \in timers : t.due >= now + Step
    /\ now' = now + Step
    /\ UNCHANGED <<chatVars, lastOp, notifVars, pollVars, ragVars>>

InitQueue ==
    /\ InitSession
    /\ storage[CHAT_HISTORY_KEY] = Absent
    /\ hasInitial = TRUE
    /\ InitNotif
    /\ InitPoller
    /\ registry = NoRegistry

NextNotif ==
    \/ \E data \in NotificationData : AddNotification(data, MaxNotifs)
    \/ \E id \in 1..nextId : RemoveNotification(id)
    \/ \E t \in timers : TimerFires(t)
    \/ ClearAllNotifications
    \/ \E id \in 1..nextId, updates \in NotificationUpdates : UpdateNotification(id, updates)
    \/ MarkAllAsRead
    \/ Tick(MaxTicks)

SpecNotif == InitQueue /\ [][NextNotif]_vars

\* The queue under publish, dismiss, clear and expiry alone, with one more
\* entry: a success (expiring) or an error (staying) notification per call
DismissData ==
    { [type |-> t, title |-> "title", message |-> "message"] : t \in {"success", "error"} }

NextDismiss ==
    \/ \E data \in DismissData : AddNotification(data, MaxQueue)
    \/ \E id \in 1..nextId : RemoveNotification(id)
    \/ \E t \in timers : TimerFires(t)
    \/ ClearAllNotifications
    \/ Tick(MaxExpiryTicks)

SpecDismiss == InitQueue /\ [][NextDismiss]_vars

----------------------------------------------------------------------------
(* Initial states and specification of the status poller *)

\* What the processing_id_ entries can hold when the page is opened
Registries ==
    { NoRegistry, <<"A", NoKey>>, <<"A", "B">>, <<"A", "A">>, <<"", "B">> }

InitPoll ==
    /\ InitSession
    /\ storage[CHAT_HISTORY_KEY] = Absent
    /\ hasInitial = TRUE
    /\ InitNotif
    /\ InitPoller
    /\ registry \in Registries

NextPoll ==
    \/ StartPoller
    \/ Restart
    \/ StopPoller
    \/ IntervalTick
    \/ \E r \in polls, res \in StatusResponses : SettleStatus(r, res)
    \/ \E k \in 1..Len(ProcessingKeys), value \in RegistryValues : SetItem(k, value)
    \/ \E k \in 1..Len(ProcessingKeys) : RemoveItem(k)

SpecPoll == InitPoll /\ [][NextPoll]_vars

----------------------------------------------------------------------------
(* Claims about the session store and the conversation controller *)

\* The last element of a non-empty sequence
Last(seq) == seq[Len(seq)]

\* A step of addMessage: every addMessage call is counted in calls
AddMessageStep == calls' = calls + 1

\* C1 as stated: the messages list the hook returns never holds more than
\* MAX_MESSAGES entries.
C1_Original == Mounted => Len(messages) <= MAX_MESSAGES

\* C1 as amended: every addMessage call extends the in-memory messages list by
\* exactly the one new turn and keeps all earlier turns, without a cap; the cap
\* is on the persisted copy, which holds the last min(length, MAX_MESSAGES)
\* turns of the in-memory list, the oldest dropped first.
C1_Amended ==
    /\ [][AddMessageStep =>
            /\ Len(messages') = Len(messages) + 1
            /\ SubSeq(messages', 1, Len(messages)) = messages]_vars
    /\ [](Mounted /\ Len(messages) > 0 =>
            /\ storage[CHAT_HISTORY_KEY].kind = "array"
            /\ Len(Persisted) <= MAX_MESSAGES
            /\ Len(Persisted) = (IF Len(messages) < MAX_MESSAGES THEN Len(messages) ELSE MAX_MESSAGES)
            /\ \A i \in 1..Len(Persisted) :
                 Persisted[i] = messages[Len(messages) - Len(Persisted) + i])

C1_Witness ==
    /\ Mounted
    /\ lastOp.op = "addMessage"
    /\ Len(messages) > MAX_MESSAGES
    /\ Len(Persisted) = MAX_MESSAGES
    /\ Persisted[1] = messages[Len(messages) - MAX_MESSAGES + 1]

\* A step that mounts a fresh instance of the hook after an earlier one was
\* unmounted, and whose load does not crash
ReopenStep == tab = "rag" /\ tab' = "specialized" /\ inst >= 1 /\ ~crashed /\ ~crashed'

\* C2: a fresh instance opened on the same key after any sequence of appends
\* holds exactly the last min(n, MAX_MESSAGES) turns of the in-memory sequence
\* of the instance before it, in the same order, with the same role, text and
\* timestamp.
C2_RoundTrip ==
    [][ReopenStep =>
          /\ Len(messages') = (IF Len(prevTurns) < MAX_MESSAGES THEN Len(prevTurns) ELSE MAX_MESSAGES)
          /\ \A i \in 1..Len(messages') :
               messages'[i] = prevTurns[Len(prevTurns) - Len(messages') + i]]_vars

C2_Witness ==
    /\ Mounted
    /\ lastOp.op = "mount"
    /\ inst = 2
    /\ calls > MAX_MESSAGES
    /\ Len(messages) = MAX_MESSAGES
    /\ "timestamp" \in DOMAIN messages[1]
    /\ messages[1].timestamp = calls - MAX_MESSAGES + 1

\* A 2xx response whose body is JSON
Success(res) == res.kind = "http" /\ Ok(res) /\ res.body.kind \in {"object", "null"}

\* C3: a submit of a non-empty question appends a user turn with the trimmed
\* question, and the successful response that settles it right after appends
\* an agent turn with the returned answer, or the placeholder when the answer
\* is empty or missing.
C3_SubmitSuccess ==
    [][/\ (lastOp'.op = "onSend" /\ lastOp'.applied =>
             /\ Len(messages') = Len(messages) + 1
             /\ SubSeq(messages', 1, Len(messages)) = messages
             /\ Last(messages').role = "user"
             /\ Last(messages').text = Trim(msg)
             /\ Last(messages').text # << >>)
       /\ (lastOp.op = "onSend" /\ lastOp.applied /\ lastOp'.op = "settle"
             /\ lastOp'.id = Len(subs) /\ Success(lastOp'.res)) =>
               /\ Len(messages') = Len(messages) + 1
               /\ SubSeq(messages', 1, Len(messages)) = messages
               /\ Last(messages).role = "user"
               /\ Last(messages').role = "bot"
               /\ Last(messages').text =
                    (IF lastOp'.res.body.answer # << >>
                       THEN lastOp'.res.body.answer ELSE NO_ANSWER)]_vars

\* The state C3 fails in: a 2xx response whose JSON body is null was settled
\* on the mounted instance and the agent turn carries the text of the TypeError
\* of data.answer instead of the placeholder
C3_Witness ==
    /\ Mounted
    /\ lastOp.op = "settle"
    /\ lastOp.applied
    /\ lastOp.res.kind = "http"
    /\ lastOp.res.status = 200
    /\ lastOp.res.body = NullBody
    /\ Last(messages).role = "bot"
    /\ Last(messages).text # NO_ANSWER
    /\ messages[Len(messages) - 1].role = "user"

\* Only whitespace, or nothing at all
Blank(s) == \A i \in 1..Len(s) : s[i] \in Whitespace

\* C4: onSend with empty or whitespace-only input appends no turn, issues no
\* request, and leaves the session, the persisted history and the loading
\* flag unchanged.
C4_BlankNoOp ==
    [][(lastOp'.op = "onSend" /\ Blank(msg)) =>
          UNCHANGED <<messages, storage, loading, inflight, subs, msg, calls>>]_vars

C4_Witness ==
    /\ lastOp = [op |-> "onSend", applied |-> FALSE]
    /\ Blank(msg)
    /\ msg # << >>
    /\ loading
    /\ inflight # {}

\* A submission that failed: no response, a non-2xx response, or a 2xx
\* response whose body is not JSON
Failed(res) ==
    \/ res.kind = "network"
    \/ res.kind = "http" /\ ~Ok(res)
    \/ res.kind = "http" /\ Ok(res) /\ res.body.kind = "text"

\* What a failed submission has to add: exactly one agent turn with a text,
\* the endpoint-not-found text for a 404
OneAgentTurn(res) ==
    /\ Len(messages') = Len(messages) + 1
    /\ SubSeq(messages', 1, Len(messages)) = messages
    /\ Last(messages').role = "bot"
    /\ Last(messages').text # << >>
    /\ (res.kind = "http" /\ res.status = 404 => Last(messages').text = MSG_404)

\* C5 as stated: every failed submission appends exactly one agent turn.
C5_Original ==
    [][(lastOp'.op = "settle" /\ Failed(lastOp'.res)) => OneAgentTurn(lastOp'.res)]_vars

\* C5 as amended: a failed submission that settles while the component
\* instance that issued it is still mounted appends exactly one agent turn
\* (for a 404 the endpoint-not-found text); one that settles after that
\* instance was unmounted appends nothing.
C5_Amended ==
    [][(lastOp'.op = "settle" /\ Failed(lastOp'.res)) =>
          IF Mounted /\ subs[lastOp'.id].inst = inst
            THEN OneAgentTurn(lastOp'.res)
            ELSE UNCHANGED <<messages, storage>>]_vars

C5_Witness ==
    /\ Mounted
    /\ lastOp.op = "settle"
    /\ lastOp.res.status = 404
    /\ Len(messages) >= 3
    /\ Last(messages).role = "bot"
    /\ Last(messages).text = MSG_404
    /\ Last(Persisted) = Last(messages)

\* The timestamp of a turn, 0 for the initial message, which has none
TimestampOf(m) == IF "timestamp" \in DOMAIN m THEN m.timestamp ELSE 0

\* In seq, the user turn of submission s is followed by its agent turn
AnsweredIn(seq, s) ==
    \A i \in 1..Len(seq) :
       (seq[i].role = "user" /\ TimestampOf(seq[i]) = s.userTs) =>
          \E j \in (i + 1)..Len(seq) :
             seq[j].role = "bot" /\ s.botTs # 0 /\ TimestampOf(seq[j]) = s.botTs

\* C6 as stated: when no request is in flight, every user turn that submit
\* appended is followed by the agent turn of its submission, in memory and in
\* the persisted copy.
C6_Original ==
    inflight = {} =>
       \A k \in 1..Len(subs) :
          /\ (Mounted => AnsweredIn(messages, subs[k]))
          /\ AnsweredIn(Persisted, subs[k])

\* C6 as amended: every user turn of a submission whose request settled while
\* the component instance that issued it was still mounted is followed by the
\* agent turn of that submission, in memory and in the persisted copy; the
\* response of a request that settles after its instance was unmounted is
\* dropped and its user turn stays unanswered.
C6_Amended ==
    \A k \in 1..Len(subs) :
       /\ subs[k].state = "answered" =>
             /\ (Mounted => AnsweredIn(messages, subs[k]))
             /\ AnsweredIn(Persisted, subs[k])
       /\ subs[k].state = "dropped" => subs[k].botTs = 0

C6_Witness ==
    /\ inflight = {}
    /\ Mounted
    /\ Len(subs) = 2
    /\ subs[1].state = "dropped"
    /\ subs[2].state = "answered"
    /\ AnsweredIn(messages, subs[2])
    /\ AnsweredIn(Persisted, subs[2])
    /\ \E i \in 1..Len(messages) : TimestampOf(messages[i]) = subs[1].userTs
    /\ \E i \in 1..Len(messages) : TimestampOf(messages[i]) = subs[2].botTs

----------------------------------------------------------------------------
(* Claims about the notification queue *)

\* The entry with this id is in the list
Listed(id) == id \in Ids(notifications)

\* The instant the ttl of a published entry has elapsed
Deadline(p) == p.at + p.ttl

\* C7: a notification published with type success and no explicit autoClose
\* is in the list at every instant before its duration (5000 ms by default)
\* has elapsed since it was published, unless the user dismissed it or
\* cleared the list, is removed by its timer no earlier than that, and is
\* absent at every later instant.
C7_AutoExpiry ==
    \A id \in 1..Len(published) :
       LET p == published[id] IN
       (p.type = "success" /\ p.explicit = "none") =>
          /\ (now < Deadline(p) => Listed(id) \/ p.removedBy \in {"dismiss", "clear"})
          /\ (now > Deadline(p) => ~Listed(id))
          /\ (p.removedBy = "timer" => now >= Deadline(p) /\ ~Listed(id))

C7_Witness ==
    \E id \in 1..Len(published) :
       /\ published[id].type = "success"
       /\ published[id].explicit = "none"
       /\ published[id].ttl = DEFAULT_DURATION
       /\ published[id].removedBy = "timer"
       /\ now > Deadline(published[id])

\* What autoClose has to resolve to for a published entry: the explicit value
\* when there is one, else true only for success
ExpectedAutoClose(p) ==
    p.explicit = "true" \/ (p.explicit = "none" /\ p.type = "success")

\* C8: addNotification schedules a timer for the new entry exactly when
\* autoClose resolves true (the explicit value wins, the default is true only
\* for success), no other operation schedules one, and only an entry whose
\* autoClose resolved true is ever removed by a timer.
C8_TimerIffAutoClose ==
    /\ [][/\ (nextId' = nextId + 1 =>
                /\ (\E t \in timers' : t.id = nextId') <=> ExpectedAutoClose(published'[nextId'])
                /\ \A t \in timers' \ timers :
                     t.id = nextId' /\ t.due = now + published'[nextId'].ttl)
          /\ (nextId' = nextId => timers' \subseteq timers)]_vars
    /\ [](\A id \in 1..Len(published) :
            published[id].removedBy = "timer" => ExpectedAutoClose(published[id]))

C8_Witness ==
    /\ Len(published) = 2
    /\ published[1].type = "success"
    /\ published[1].explicit = "false"
    /\ Listed(1)
    /\ now > Deadline(published[1])
    /\ published[2].type = "error"
    /\ published[2].explicit = "true"
    /\ published[2].removedBy = "timer"

\* The list after the step is the list before it without the entry with this
\* id, the other entries in the same order; unchanged when there is no such entry
RemovedExactly(id) ==
    IF id \in Ids(notifications)
      THEN \E k \in 1..Len(notifications) :
              /\ notifications[k].id = id
              /\ Len(notifications') = Len(notifications) - 1
              /\ \A i \in 1..(k - 1) : notifications'[i] = notifications[i]
              /\ \A i \in k..(Len(notifications) - 1) : notifications'[i] = notifications[i + 1]
      ELSE notifications' = notifications

\* C9: removeNotification(id), called by the user or by an expiry timer,
\* removes exactly the entry with that id and keeps every other entry in
\* its relative order; when the entry is already gone the list is left as
\* it is; neither changes the unread flag.
C9_DismissExact ==
    [][/\ \A id \in 1..nextId :
            RemoveNotification(id) => RemovedExactly(id) /\ UNCHANGED hasUnreadNotifications
       /\ \A t \in timers :
            TimerFires(t) => RemovedExactly(t.id) /\ UNCHANGED hasUnreadNotifications]_vars

C9_Witness ==
    /\ Len(published) = 3
    /\ Ids(notifications) = {1, 3}
    /\ notifications[1].id = 3
    /\ notifications[2].id = 1
    /\ published[2].removedBy = "timer"
    /\ published[2].late

\* C10: once clearAllNotifications has run the list is empty and the unread
\* flag is false, whatever was published before, and they stay so while
\* timers scheduled before the clear fire and time passes, until the next
\* addNotification or updateNotification.
C10_ClearEmpties ==
    /\ cleared => notifications = << >> /\ ~hasUnreadNotifications
    /\ \A id \in 1..Len(published) : published[id].removedBy # "none" => ~Listed(id)

C10_Witness ==
    /\ cleared
    /\ Len(published) = 2
    /\ \A id \in 1..2 : published[id].removedBy = "clear"
    /\ \E id \in 1..2 :
          /\ ExpectedAutoClose(published[id])
          /\ ~\E t \in timers : t.id = id
    /\ \E id \in 1..2 : \E t \in timers : t.id = id

\* C23: the list is ordered most-recent-first: of two entries, the one
\* nearer the head has the greater or equal timestamp.
C23_MostRecentFirst ==
    \A i \in 1..Len(notifications) : \A j \in i..Len(notifications) :
       notifications[i].timestamp >= notifications[j].timestamp

\* What does hold of C23: the list is ordered most-recently-published-first,
\* and updateNotification leaves every entry at the index it had.
C23_PublishedFirst ==
    /\ [](\A i \in 1..Len(notifications) : \A j \in (i + 1)..Len(notifications) :
             notifications[i].id > notifications[j].id)
    /\ [][updated' = updated + 1 =>
             /\ Len(notifications') = Len(notifications)
             /\ \A i \in 1..Len(notifications) : notifications'[i].id = notifications[i].id]_vars

\* The entry published first was updated after the second was published: it
\* is the most recent one and stands behind the other
C23_Witness ==
    /\ updated = 1
    /\ Len(notifications) = 2
    /\ notifications[1].id = 2
    /\ notifications[2].id = 1
    /\ notifications[2].timestamp > notifications[1].timestamp
    /\ notifications[1].timestamp = published[2].at
    /\ notifications[2].timestamp > published[1].at

\* The new kind given in a partial update is success or error
MarksUnread(updates) == "type" \in DOMAIN updates /\ updates.type \in {"success", "error"}

\* The step changes only the entry with this id: its fields are overwritten
\* by the update and its timestamp is refreshed
OnlyEntryChanged(id, updates) ==
    /\ Len(notifications') = Len(notifications)
    /\ \A i \in 1..Len(notifications) :
          IF notifications[i].id = id
            THEN /\ notifications'[i].id = id
                 /\ notifications'[i].timestamp = now
                 /\ \A f \in DOMAIN notifications[i] \ {"id", "timestamp"} :
                       notifications'[i][f] =
                          IF f \in DOMAIN updates THEN updates[f] ELSE notifications[i][f]
            ELSE notifications'[i] = notifications[i]

\* The unread flag becomes true for success and error and is left alone otherwise
UnreadRemarked(updates) ==
    hasUnreadNotifications' = (hasUnreadNotifications \/ MarksUnread(updates))

\* C24: updateNotification on an id in the list changes only that entry and
\* sets the unread flag exactly for a new kind of success or error; on an id
\* not in the list it changes neither the list nor the unread flag.
C24_UpdateFrame ==
    [][\A id \in 1..nextId, updates \in NotificationUpdates :
          UpdateNotification(id, updates) =>
             IF Listed(id)
               THEN OnlyEntryChanged(id, updates) /\ UnreadRemarked(updates)
               ELSE UNCHANGED <<notifications, hasUnreadNotifications>>]_vars

\* What does hold of C24: the list changes as stated, for an id that is in
\* it and for one that is not, and the unread flag follows the new kind
\* whether the id is in the list or not.
C24_ListFrame ==
    [][\A id \in 1..nextId, updates \in NotificationUpdates :
          UpdateNotification(id, updates) =>
             /\ UnreadRemarked(updates)
             /\ IF Listed(id)
                  THEN OnlyEntryChanged(id, updates)
                  ELSE UNCHANGED notifications]_vars

\* The list was cleared, and an update of the entry that is gone set the
\* unread flag again
C24_Witness ==
    /\ nextId = 1
    /\ updated = 1
    /\ ~cleared
    /\ published[1].removedBy = "clear"
    /\ notifications = << >>
    /\ hasUnreadNotifications

\* The entry of the list with this id
Entry(id) == CHOOSE n \in {notifications[i] : i \in 1..Len(notifications)} : n.id = id

\* C28: updateNotification leaves the timers as they are; an entry published
\* without auto-expiry is never removed by a timer, whatever kind it was
\* updated to; an entry published with auto-expiry is gone once its original
\* deadline has passed and is not removed by its timer before, whatever
\* kind it was updated to.
C28_UpdateKeepsTimers ==
    /\ [][updated' = updated + 1 => timers' = timers]_vars
    /\ [](\A id \in 1..Len(published) :
            LET p == published[id] IN
            IF ExpectedAutoClose(p)
              THEN /\ now > Deadline(p) => ~Listed(id)
                   /\ p.removedBy = "timer" => now >= Deadline(p)
                   /\ (Listed(id) /\ now <= Deadline(p)) =>
                         \E t \in timers : t.id = id /\ t.due = Deadline(p)
              ELSE /\ p.removedBy # "timer"
                   /\ \A t \in timers : t.id # id
                   /\ p.removedBy = "none" => Listed(id))

\* Published as processing, updated to success, and still in the list after
\* the default duration; an entry published as success is gone by its timer
C28_Witness ==
    /\ Len(published) = 2
    /\ updated = 1
    /\ published[1].type = "processing"
    /\ Listed(1)
    /\ Entry(1).type = "success"
    /\ now > Entry(1).timestamp + DEFAULT_DURATION
    /\ published[2].type = "success"
    /\ published[2].removedBy = "timer"

----------------------------------------------------------------------------
(* Claims about the failures of a submission *)

\* A step that settles a failed submission on the instance that issued it
FailedSettleStep == lastOp'.op = "settle" /\ lastOp'.applied /\ Failed(lastOp'.res)

\* C18 as stated: a failed submission adds an entry to the notification list
\* and sets the unread flag.
C18_Original ==
    [][FailedSettleStep =>
          /\ Len(notifications') = Len(notifications) + 1
          /\ hasUnreadNotifications']_vars

\* C18 as amended: a submission, failed or not, is surfaced in the
\* conversation only: onSend changes neither the notification list nor the
\* unread flag nor the timers, and a failed one appends its agent turn.
C18_Amended ==
    [][/\ lastOp'.op \in {"onSend", "settle"} =>
             UNCHANGED <<notifications, hasUnreadNotifications, timers, nextId>>
       /\ FailedSettleStep => OneAgentTurn(lastOp'.res)]_vars

C18_Witness ==
    /\ Mounted
    /\ lastOp.op = "settle"
    /\ lastOp.applied
    /\ Failed(lastOp.res)
    /\ lastOp.res.kind = "network"
    /\ Last(messages).role = "bot"
    /\ notifications = << >>
    /\ ~hasUnreadNotifications

\* A step in which the instance that issued a request adds its agent turn
AppliedSettleStep == lastOp'.op = "settle" /\ lastOp'.applied

\* A response with a non-2xx status was received
HttpFailure(res) == res.kind = "http" /\ ~Ok(res)

\* The two texts that describe an unreachable backend
ConnectionTexts == {MSG_NO_CONNECTION, MSG_NETWORK}

\* C19: the agent turn carries a cannot-connect text exactly when no response
\* was received, and for a non-2xx response it carries the text chosen by
\* the status code, whatever the body holds.
C19_NetworkIffNoResponse ==
    [][AppliedSettleStep =>
          /\ (Last(messages').text \in ConnectionTexts) <=> (lastOp'.res.kind = "network")
          /\ HttpFailure(lastOp'.res) =>
                Last(messages').text = HttpErrorMessage(lastOp'.res)]_vars

\* What does hold of C19: a non-2xx response whose status-chosen message
\* names none of the network markers yields that message unchanged.
C19_UnmarkedHttpFailure ==
    [][(AppliedSettleStep /\ HttpFailure(lastOp'.res)
          /\ ~Includes(HttpErrorMessage(lastOp'.res), "Failed to fetch")) =>
          Last(messages').text = HttpErrorMessage(lastOp'.res)]_vars

C19_Witness ==
    /\ Mounted
    /\ lastOp.op = "settle"
    /\ lastOp.applied
    /\ lastOp.res.kind = "http"
    /\ lastOp.res.status = 400
    /\ lastOp.res.body.detail = <<"Failed to fetch">>
    /\ Last(messages).role = "bot"
    /\ Last(messages).text = MSG_NO_CONNECTION

\* The class of a non-2xx status: one per case of the switch, and the default
StatusClass(status) == IF status \in {404, 500, 503, 400} THEN status ELSE 0

\* C20: the text of the agent turn of a non-2xx response differs from the
\* text any response of another status class produces.
C20_ClassesDistinct ==
    [][(AppliedSettleStep /\ HttpFailure(lastOp'.res)) =>
          \A other \in Responses :
             (HttpFailure(other) /\ StatusClass(other.status) # StatusClass(lastOp'.res.status)) =>
                BotText(other) # Last(messages').text]_vars

\* What does hold of C20: the messages the switch itself chooses differ
\* between the classes.
C20_ThrownDistinct ==
    [][(AppliedSettleStep /\ HttpFailure(lastOp'.res)) =>
          \A other \in Responses :
             (HttpFailure(other) /\ StatusClass(other.status) # StatusClass(lastOp'.res.status)) =>
                HttpErrorMessage(other) # HttpErrorMessage(lastOp'.res)]_vars

C20_Witness ==
    /\ Mounted
    /\ lastOp.op = "settle"
    /\ lastOp.applied
    /\ lastOp.res.kind = "http"
    /\ lastOp.res.status = 418
    /\ lastOp.res.body.detail = <<"Failed to fetch">>
    /\ Last(messages).text = MSG_NO_CONNECTION
    /\ \E other \in Responses :
          other.status = 400 /\ BotText(other) = Last(messages).text

\* String.prototype.includes with a string argument, on token sequences
Contains(s, part) ==
    \E i \in 1..(Len(s) - Len(part) + 1) : SubSeq(s, i, i + Len(part) - 1) = part

\* A step in which the agent turn of a 400 response is added
BadRequestStep ==
    AppliedSettleStep /\ lastOp'.res.kind = "http" /\ lastOp'.res.status = 400

\* The body is JSON with a detail member
HasDetail(body) == body.kind = "object" /\ body.detail # << >>

\* C21: the agent turn of a 400 response contains the detail of a JSON body
\* that has one, and the raw body otherwise.
C21_DetailOrRawBody ==
    [][BadRequestStep =>
          IF HasDetail(lastOp'.res.body)
            THEN Contains(Last(messages').text, lastOp'.res.body.detail)
            ELSE Contains(Last(messages').text, ResText(lastOp'.res.body))]_vars

\* What does hold of C21: the detail is shown unless it names a network
\* marker, and without a detail the text is one of the two fixed texts.
C21_DetailOrFixedText ==
    [][BadRequestStep =>
          IF HasDetail(lastOp'.res.body)
            THEN \/ Last(messages').text = <<"Solicitud invalida: ">> \o lastOp'.res.body.detail
                 \/ /\ Includes(lastOp'.res.body.detail, "Failed to fetch")
                    /\ Last(messages').text = MSG_NO_CONNECTION
            ELSE IF lastOp'.res.body.kind = "object"
                   THEN Last(messages').text = <<"Solicitud invalida: ", "Error de validacion">>
                   ELSE Last(messages').text = MSG_400_FORMAT]_vars

C21_Witness ==
    /\ Mounted
    /\ lastOp.op = "settle"
    /\ lastOp.applied
    /\ lastOp.res.kind = "http"
    /\ lastOp.res.status = 400
    /\ lastOp.res.body = TextBody(<<"Internal Server Error">>)
    /\ Last(messages).role = "bot"
    /\ Last(messages).text = MSG_400_FORMAT
    /\ ~Contains(Last(messages).text, ResText(lastOp.res.body))

----------------------------------------------------------------------------
(* Claims about overlapping submissions *)

\* Submission k was in flight together with another submission
Overlapped(k) ==
    \/ subs[k].during # {}
    \/ \E j \in 1..Len(subs) : k \in subs[j].during

\* A step of onSend that issues a request while another one is in flight
OverlappingSubmitStep == lastOp'.op = "onSend" /\ lastOp'.applied /\ inflight # {}

\* The second request is issued next to the first, and the user turn is
\* appended at submit time
BothProceed ==
    /\ inflight \subseteq inflight'
    /\ Cardinality(inflight') = Cardinality(inflight) + 1
    /\ Len(messages') = Len(messages) + 1
    /\ SubSeq(messages', 1, Len(messages)) = messages
    /\ Last(messages').role = "user"
    /\ Last(messages').text = Trim(msg)

\* The request that settles appends its agent turn behind every turn there
\* is, and the other requests stay in flight
AgentTurnAppended ==
    /\ Len(messages') = Len(messages) + 1
    /\ SubSeq(messages', 1, Len(messages)) = messages
    /\ Last(messages').role = "bot"
    /\ Last(messages').text = BotText(lastOp'.res)
    /\ Cardinality(inflight') = Cardinality(inflight) - 1
    /\ inflight' \subseteq inflight

\* C22 as stated: both of two overlapping submissions proceed, and every one
\* of them that settles appends exactly one agent turn, at the end.
C22_Original ==
    [][/\ OverlappingSubmitStep => BothProceed
       /\ (lastOp'.op = "settle" /\ Overlapped(lastOp'.id)) => AgentTurnAppended]_vars

\* C22 as amended: both proceed, and each one that settles while the
\* component instance that issued it is still mounted appends exactly one
\* agent turn, at the end; one that settles after that instance was
\* unmounted appends nothing.
C22_Amended ==
    [][/\ OverlappingSubmitStep => BothProceed
       /\ (lastOp'.op = "settle" /\ Overlapped(lastOp'.id)) =>
             IF Mounted /\ subs[lastOp'.id].inst = inst
               THEN AgentTurnAppended
               ELSE UNCHANGED <<messages, storage>> /\ inflight' \subseteq inflight]_vars

\* Two submissions of one instance overlapped and settled in the reverse
\* order: the agent turn of the second stands before that of the first
C22_Witness ==
    /\ Mounted
    /\ Len(subs) = 2
    /\ subs[2].during = {1}
    /\ subs[1].state = "answered"
    /\ subs[2].state = "answered"
    /\ subs[2].botTs < subs[1].botTs
    /\ lastOp.op = "settle"
    /\ lastOp.id = 1
    /\ Len(messages) >= 4
    /\ TimestampOf(messages[Len(messages) - 3]) = subs[1].userTs
    /\ TimestampOf(messages[Len(messages) - 2]) = subs[2].userTs
    /\ TimestampOf(messages[Len(messages) - 1]) = subs[2].botTs
    /\ TimestampOf(messages[Len(messages)]) = subs[1].botTs

\* Turn i of seq is an agent turn added by onSend (the seed turn has no timestamp)
AgentTurn(seq, i) == seq[i].role = "bot" /\ TimestampOf(seq[i]) # 0

\* Turn i of seq stands behind the user turn of the submission it answers
FollowsItsQuestion(seq, i) ==
    \E k \in 1..Len(subs) :
       /\ subs[k].botTs = TimestampOf(seq[i])
       /\ \E j \in 1..(i - 1) :
             seq[j].role = "user" /\ TimestampOf(seq[j]) = subs[k].userTs

\* C27: every agent turn other than the seed turn is preceded by the user
\* turn of the submission it answers, in memory and in the persisted copy.
C27_WellFormedDialogue ==
    /\ Mounted =>
          \A i \in 1..Len(messages) : AgentTurn(messages, i) => FollowsItsQuestion(messages, i)
    /\ \A i \in 1..Len(Persisted) : AgentTurn(Persisted, i) => FollowsItsQuestion(Persisted, i)

\* The session was reset while a request was in flight: the answer stands
\* right behind the seed turn, without its question
C27_Witness ==
    /\ Mounted
    /\ lastOp.op = "settle"
    /\ lastOp.applied
    /\ Len(subs) = 1
    /\ subs[1].state = "answered"
    /\ Len(messages) = 2
    /\ messages[1] = initialMessage
    /\ messages[2].role = "bot"
    /\ TimestampOf(messages[2]) = subs[1].botTs
    /\ Persisted = messages

----------------------------------------------------------------------------
(* Claims about loading and resetting the session *)

\* A stored text that is not the encoding of a list of turns
Malformed(stored) == stored.kind \in {"garbage", "null"}

\* The seed state of the session
Seed == IF hasInitial THEN <<initialMessage>> ELSE << >>

\* A step that mounts an instance of the hook
OpenStep == inst' = inst + 1

\* C15: opening a session whose stored text is malformed (it does not parse,
\* or it parses to something that is not a list) gives the seed state and
\* raises no fault.
C15_MalformedIsAbsent ==
    [][(OpenStep /\ Malformed(storage[CHAT_HISTORY_KEY])) =>
          ~crashed' /\ messages' = Seed]_vars

\* C15, the part that holds: a stored text that does not parse gives the
\* seed state.
C15_Unparseable ==
    [][(OpenStep /\ storage[CHAT_HISTORY_KEY] = Garbage) =>
          ~crashed' /\ messages' = Seed]_vars

\* The state C15 fails in: the stored text is the JSON text null and the
\* render that follows the load has thrown
C15_Witness ==
    /\ crashed
    /\ lastOp = [op |-> "mount", applied |-> FALSE]
    /\ storage[CHAT_HISTORY_KEY] = JSONnull

\* A step of clearHistory
ClearStep == lastOp'.op = "clearHistory"

\* C16: clearHistory leaves exactly the seed in memory and writes the same to
\* storage in the same step (the key is removed when there is no initial
\* message), so that a fresh instance opened right after loads the seed and
\* no turn of the conversation before.
C16_ResetPersists ==
    [][ClearStep =>
          /\ messages' = Seed
          /\ storage'[CHAT_HISTORY_KEY] =
                (IF hasInitial THEN JSONstringify(<<initialMessage>>) ELSE Absent)
          /\ LoadEffect(storage'[CHAT_HISTORY_KEY], hasInitial)
                = [crash |-> FALSE, messages |-> Seed]]_vars

C16_Witness ==
    /\ Mounted
    /\ lastOp.op = "clearHistory"
    /\ calls > 0
    /\ ~hasInitial
    /\ messages = << >>
    /\ storage[CHAT_HISTORY_KEY] = Absent

\* C17: clearHistory called right after clearHistory changes neither the
\* turns in memory nor the stored text.
C17_ResetIdempotent ==
    [][(lastOp.op = "clearHistory" /\ ClearStep) => UNCHANGED <<messages, storage>>]_vars

C17_Witness ==
    /\ Mounted
    /\ lastOp.op = "clearHistory"
    /\ calls > 1
    /\ hasInitial
    /\ ClearHistoryResult(hasInitial, storage) = [messages |-> messages, storage |-> storage]

----------------------------------------------------------------------------
(* Claims about the persisted copy *)

\* C26: whenever the turns in memory are not empty the persisted value is
\* their last min(len, 100) turns; what the store writes never has more than
\* 100 entries; and a step that leaves the turns in memory empty writes no
\* value under the key (clearHistory may remove the entry).
C26_PersistedMirrorsMemory ==
    /\ []((Mounted /\ messages # << >>) =>
             /\ storage[CHAT_HISTORY_KEY].kind = "array"
             /\ Persisted = SliceLast(messages, MAX_MESSAGES)
             /\ Len(Persisted) <= MAX_MESSAGES)
    /\ [][/\ storage' # storage => Len(storage'[CHAT_HISTORY_KEY].items) <= MAX_MESSAGES
          /\ messages' = << >> =>
                \/ storage' = storage
                \/ /\ lastOp'.op = "clearHistory"
                   /\ storage' = [storage EXCEPT ![CHAT_HISTORY_KEY] = Absent]]_vars

\* More than 100 turns in memory, the last 100 of them persisted
C26_Witness ==
    /\ Mounted
    /\ Len(messages) = MAX_MESSAGES + 2
    /\ Len(Persisted) = MAX_MESSAGES
    /\ Persisted[1] = messages[3]
    /\ Last(Persisted) = Last(messages)

----------------------------------------------------------------------------
(* Claims about the isolation of the sessions *)

\* The chat id of the other session
OtherOf(chatId) == IF chatId = "custom" THEN "rag" ELSE "custom"

\* C30: append, reset and load of the session with one chatId write only the
\* localStorage entry of that chatId, load reads that entry, append and
\* reset leave the turns in memory of the other session as they are, and
\* what is persisted for a session is the last 100 of its own turns.
C30_SessionsIsolated ==
    /\ [][\A c \in ChatIds :
            lastOp'.chatId = c =>
               /\ storage'[HistoryKey(OtherOf(c))] = storage[HistoryKey(OtherOf(c))]
               /\ lastOp'.op \in {"addMessage", "clearHistory"} =>
                     IF c = "custom" THEN UNCHANGED ragMessages ELSE UNCHANGED messages
               /\ lastOp'.op = "setTab" =>
                     (IF c = "custom" THEN messages' ELSE ragMessages')
                        = LoadEffect(storage[HistoryKey(c)], hasInitial).messages]_vars
    /\ [](\A c \in ChatIds :
            (Showing(c) /\ SessionMessages(c) # << >>) =>
               JSONparse(storage[HistoryKey(c)]) = SliceLast(SessionMessages(c), MAX_MESSAGES))

\* Each session holds turns of its own; the chat 'custom' is on screen and
\* has just appended a turn, the entry of 'rag' holds what 'rag' appended
C30_Witness ==
    /\ HistoryKey("custom") = CHAT_HISTORY_KEY
    /\ Showing("custom")
    /\ lastOp.op = "addMessage"
    /\ lastOp.chatId = "custom"
    /\ inst >= 3
    /\ Len(messages) >= 2
    /\ Persisted = messages
    /\ storage[HistoryKey("rag")].kind = "array"
    /\ Len(JSONparse(storage[HistoryKey("rag")])) >= 2
    /\ Last(JSONparse(storage[HistoryKey("rag")])).timestamp < messages[2].timestamp
    /\ \A i \in 2..Len(messages) :
          \A j \in 1..Len(JSONparse(storage[HistoryKey("rag")])) :
             messages[i] # JSONparse(storage[HistoryKey("rag")])[j]

----------------------------------------------------------------------------
(* Claims about refused writes *)

\* A step of append or reset in which a write was refused
RefusedStep ==
    /\ lastOp'.op \in {"addMessage", "clearHistory"}
    /\ ~lastOp'.wrote \/ ~lastOp'.saved

\* C25: a refused write during append or reset raises nothing to the caller
\* (the component stays mounted), the turns in memory are what they are
\* without the failure, only the persisted copy may lag behind, and an
\* append whose write succeeds afterwards persists the turns in memory.
C25_WriteFailureNonFatal ==
    [][/\ RefusedStep =>
             /\ Mounted'
             /\ messages' = IF lastOp'.op = "addMessage"
                               THEN AddMessage(messages, Script(calls + 1))
                               ELSE Seed
             /\ storage' \in IF lastOp'.op = "addMessage"
                                THEN {storage}
                                ELSE {storage, ClearHistoryResult(hasInitial, storage).storage}
       /\ (lastOp'.op = "addMessage" /\ calls' = calls + 1 /\ lastOp'.wrote) =>
             /\ messages' = AddMessage(messages, Script(calls + 1))
             /\ Persisted' = SliceLast(messages', MAX_MESSAGES)]_vars

\* An append whose write was refused left the persisted copy one turn
\* behind; the component is still mounted
C25_Witness ==
    /\ Mounted
    /\ lastOp.op = "addMessage"
    /\ ~lastOp.wrote
    /\ calls >= 2
    /\ Len(messages) >= 2
    /\ Last(messages).text = Script(calls).text
    /\ Last(messages).timestamp = now - 1
    /\ storage[CHAT_HISTORY_KEY].kind = "array"
    /\ Len(Persisted) = Len(messages) - 1
    /\ Persisted = SubSeq(messages, 1, Len(messages) - 1)

----------------------------------------------------------------------------
(* Claims about the status poller *)

\* A status request that failed: no response, or a non-2xx response
PollFailed(res) == res.kind = "network" \/ res.status < 200 \/ res.status > 299

\* A status request that succeeded: a 2xx response with a JSON object
PollSucceeded(res) == res.kind = "http" /\ ~PollFailed(res) /\ res.body.kind = "object"

\* The record of a job whose request failed
IsFailedStatus(status) ==
    status.success = "false" /\ status.error # Undefined /\ status.loading = "false"

\* The record of a job is what the body reports
Reports(status, id, body) ==
    /\ status.id = id
    /\ status.success = body.success
    /\ status.message = body.message
    /\ status.error = body.error
    /\ status.data = body.data
    /\ status.warnings = body.warnings
    /\ status.timestamp = body.timestamp
    /\ status.loading = "false"

\* The step leaves the record of every job other than id as it is
OthersUntouched(id) ==
    /\ DOMAIN statuses' \ {id} = DOMAIN statuses \ {id}
    /\ \A other \in DOMAIN statuses \ {id} : statuses'[other] = statuses[other]

\* A step in which a request of the mounted instance settles
SettleStep == pollOp'.op = "settle" /\ polls' # polls /\ PollAlive(pollOp'.req)

\* C11: when a status request settles, a failed one (network failure or
\* non-2xx response) leaves its job failed (success false, error set, loading
\* false), a successful one leaves its job in the state the response reports,
\* and the record of no other job changes, in whichever order requests settle.
C11_PollerIsolation ==
    [][SettleStep =>
          LET r == pollOp'.req
              res == pollOp'.res
          IN  /\ PollFailed(res) => IsFailedStatus(statuses'[r.id])
              /\ PollSucceeded(res) => Reports(statuses'[r.id], r.id, res.body)
              /\ OthersUntouched(r.id)]_vars

\* C11, the part that holds: a request that settles never changes the record
\* of another job, and one that ends in a network failure or in a body that
\* is not a JSON object leaves its job failed.
C11_Isolation ==
    [][SettleStep =>
          LET r == pollOp'.req
              res == pollOp'.res
          IN  /\ (res.kind = "network" \/ res.body.kind # "object") =>
                    IsFailedStatus(statuses'[r.id])
              /\ PollSucceeded(res) => Reports(statuses'[r.id], r.id, res.body)
              /\ OthersUntouched(r.id)]_vars

\* The state C11 fails in: the requests of A and B of one run of the effect
\* have settled, B's with a success and A's last with a 500 whose body is a
\* JSON object, and A's record is not a failed one
C11_Witness ==
    /\ pollMounted
    /\ polls = {}
    /\ pollOp.op = "settle"
    /\ pollOp.req.id = "A"
    /\ pollOp.res.kind = "http"
    /\ pollOp.res.status = 500
    /\ pollOp.res.body = DetailBody
    /\ "B" \in DOMAIN statuses
    /\ statuses["B"].success = "true"
    /\ statuses["A"].success = Undefined
    /\ statuses["A"].error = Undefined

\* C12: every status request that ends in a non-2xx response or in a network
\* failure records its job as failed (success false) with an error detail,
\* whatever the body of the response.
C12_FailureRecorded ==
    [][(SettleStep /\ PollFailed(pollOp'.res)) =>
          /\ pollOp'.req.id \in DOMAIN statuses'
          /\ statuses'[pollOp'.req.id].success = "false"
          /\ statuses'[pollOp'.req.id].error # Undefined]_vars

\* The state C12 fails in: a 404 whose body is a JSON object was settled and
\* the record of the job has neither success nor error
C12_Witness ==
    /\ pollMounted
    /\ pollOp.op = "settle"
    /\ PollAlive(pollOp.req)
    /\ pollOp.res.kind = "http"
    /\ pollOp.res.status = 404
    /\ pollOp.res.body.kind = "object"
    /\ statuses[pollOp.req.id].success = Undefined
    /\ statuses[pollOp.req.id].error = Undefined
    /\ statuses[pollOp.req.id].loading = "false"

\* Request r was started before the last stop of the poller: by a run of the
\* effect that has been cleaned up since
StartedBeforeStop(r) == ~pollMounted \/ r.inst # pollInst \/ r.run # run

\* Every request the step issues belongs to the run of the effect that is
\* current after the step
IssuedByCurrentRun ==
    \A q \in polls' \ polls : pollMounted' /\ q.inst = pollInst' /\ q.run = run'

\* C13: after a stop of the poller (unmount, or restart on a change of
\* baseUrl or intervalMs) the run that was stopped issues no request, and no
\* request started before the stop updates statuses when it settles.
C13_StopDiscards ==
    [][/\ IssuedByCurrentRun
       /\ (pollOp'.op = "settle" /\ polls' # polls /\ StartedBeforeStop(pollOp'.req)) =>
             statuses' = statuses]_vars

\* C13, the part that holds: the stopped run issues no request, and a request
\* of an instance that was unmounted updates nothing.
C13_Teardown ==
    [][/\ IssuedByCurrentRun
       /\ (pollOp'.op = "settle" /\ polls' # polls /\ ~PollAlive(pollOp'.req)) =>
             statuses' = statuses]_vars

\* The state C13 fails in: after a restart a request of the run before has
\* settled and written the record of its job, while the request of the
\* current run for that job is still in flight
C13_Witness ==
    /\ pollMounted
    /\ pollOp.op = "settle"
    /\ pollOp.req.inst = pollInst
    /\ pollOp.req.run < run
    /\ statuses[pollOp.req.id].loading = "false"
    /\ statuses[pollOp.req.id].id = pollOp.req.id
    /\ \E q \in polls : q.id = pollOp.req.id /\ q.run = run

\* The job ids registered in localStorage: the non-empty values of the
\* processing_id_ entries
Registered(reg) == {reg[k] : k \in 1..Len(ProcessingKeys)} \ {NoKey, ""}

\* The step runs the effect, or the interval callback
PollingStep == run' = run + 1 \/ ticks' = ticks + 1

\* The requests the step issues
NewRequests == polls' \ polls

\* The step issues one request per element of list, in its order
OnePerEntry(list) ==
    /\ Cardinality(NewRequests) = Len(list)
    /\ \A i \in 1..Len(list) :
          \E q \in NewRequests : q.rid = pollSeq + i /\ q.id = list[i]

\* C14 as stated: on start and at every tick one request is issued for every
\* job id registered in localStorage at that moment (one per entry that holds
\* the id), and none for any other id.
C14_Original ==
    [][PollingStep =>
          \A id \in JobIds :
             Cardinality({q \in NewRequests : q.id = id})
               = Cardinality({k \in 1..Len(ProcessingKeys) : registry[k] = id})]_vars

\* C14 as amended: a run of the effect (mount, or change of baseUrl or
\* intervalMs) reads the processing_id_ entries once and issues one request
\* per entry with a non-empty value, and sets the interval only when there is
\* such an entry; every tick issues one request per entry of that same list,
\* whatever has been written to or removed from localStorage since; no other
\* step issues a request or changes the list.
C14_Amended ==
    [][/\ (run' = run + 1 =>
              /\ \A k \in 1..Len(ProcessingKeys) :
                    (registry[k] \notin {NoKey, ""}) =>
                       \E i \in 1..Len(ids') : ids'[i] = registry[k]
              /\ Len(ids') = Cardinality({k \in 1..Len(ProcessingKeys) :
                                            registry[k] \notin {NoKey, ""}})
              /\ OnePerEntry(ids')
              /\ interval' = (Len(ids') > 0))
       /\ (ticks' = ticks + 1 => interval /\ ids' = ids /\ OnePerEntry(ids))
       /\ (run' = run /\ ticks' = ticks =>
              /\ NewRequests = {}
              /\ (pollMounted' => ids' = ids /\ interval' = interval))]_vars

\* A job registered after the start is not polled by the tick that follows,
\* and the poller that started on an empty registry has no timer
C14_Witness ==
    /\ pollOp.op = "tick"
    /\ ids = <<"A">>
    /\ "B" \in Registered(registry)
    /\ pollSeq = 2
    /\ \A q \in polls : q.id = "A"
    /\ "B" \notin DOMAIN statuses

\* C29: the record of a job is loading whenever a request for it is in
\* flight, and the record shown for a job is the one of the most recently
\* issued request that has settled.
C29_LoadingAndLatest ==
    pollMounted =>
       /\ \A r \in polls :
             PollAlive(r) => r.id \in DOMAIN statuses /\ statuses[r.id].loading = "true"
       /\ \A id \in DOMAIN shown : shown[id].rid = shown[id].latest

\* What does hold of C29: a request marks its job as loading when it is
\* issued, and the request that settles last, whenever it was issued, writes
\* the record and ends loading.
C29_LastWriterWins ==
    [][/\ PollingStep => \A r \in NewRequests : statuses'[r.id].loading = "true"
       /\ SettleStep =>
             /\ statuses'[pollOp'.req.id] = StatusRecord(pollOp'.req.id, pollOp'.res)
             /\ statuses'[pollOp'.req.id].loading = "false"
             /\ shown'[pollOp'.req.id].rid = pollOp'.req.rid]_vars

\* Two requests for job A overlapped; the later one settled first with a
\* success and the earlier one then replaced its record with a failure
C29_Witness ==
    /\ pollMounted
    /\ pollOp.op = "settle"
    /\ pollOp.req.id = "A"
    /\ "A" \in DOMAIN shown
    /\ shown["A"].rid = pollOp.req.rid
    /\ shown["A"].rid < shown["A"].latest
    /\ \A r \in polls : r.id # "A"
    /\ statuses["A"] = StatusRecord("A", pollOp.res)
    /\ pollOp.res.kind = "network"

====
